---- MODULE Spec2Model ----
(***************************************************************************)
(* Model of the metro-map mutation engine,                                 *)
(* examples/metro-map/backend/app/data/metro_map_store.py (MetroMapStore). *)
(*                                                                         *)
(* Strings are sequences of one-character strings so that lower(), the     *)
(* slug regexp, strip(), title() and the "-<counter>" suffix are computed  *)
(* as the code computes them.  None and the empty string are both the      *)
(* empty sequence: every optional argument of add_station is only ever     *)
(* tested for truthiness (`x or default`, `if requested`).                 *)
(***************************************************************************)
EXTENDS Integers, Sequences, FiniteSets, TLC

\* map, station_lookup, line_lookup: MetroMapStore.map, ._station_lookup and
\*     ._line_lookup; a lookup maps an id to the position of the object in
\*     map.stations / map.lines
\* available_maps: MetroMapStore.available_maps, the items of the catalog
\* calls: the local variables of the add_station calls that are in flight
\*     when calls run as threads
\* client_tool_call: MetroAgentContext.client_tool_call
\* last: what the last call left behind for its caller
\* added: the number of add_station calls that returned since the last load
VARIABLES map, station_lookup, line_lookup, available_maps, calls,
          client_tool_call, last, added

vars == <<map, station_lookup, line_lookup, available_maps, calls,
          client_tool_call, last, added>>

\* ---------------------------------------------------------------- bounds
\* number of successful add_station calls explored after each load
MaxAdds == 2

\* ------------------------------------------------------ program constants
GRID_X_SPACING == 1
GRID_Y_SPACING == 1
\* range(start_offset, 16): the largest local offset tried
MaxLocalOffset == 15
\* range(1, 20): the largest diagonal delta tried
MaxDiagonal == 19

None == << >>

\* ------------------------------------------------------------- characters
LowerLetters ==
    <<"a","b","c","d","e","f","g","h","i","j","k","l","m",
      "n","o","p","q","r","s","t","u","v","w","x","y","z">>
UpperLetters ==
    <<"A","B","C","D","E","F","G","H","I","J","K","L","M",
      "N","O","P","Q","R","S","T","U","V","W","X","Y","Z">>
DigitChars == <<"0","1","2","3","4","5","6","7","8","9">>

Range(f) == {f[i] : i \in DOMAIN f}

Min(S) == CHOOSE m \in S : \A n \in S : m <= n
Max(S) == CHOOSE m \in S : \A n \in S : m >= n
Abs(n) == IF n < 0 THEN -n ELSE n

LowerSet == Range(LowerLetters)
UpperSet == Range(UpperLetters)

\* str.lower() and str.upper() on the letters they change
LowerOf == [c \in UpperSet |-> LowerLetters[CHOOSE i \in 1..26 : UpperLetters[i] = c]]
UpperOf == [c \in LowerSet |-> UpperLetters[CHOOSE i \in 1..26 : LowerLetters[i] = c]]

\* str.lower() on one character
LowerChar(c) == IF c \in UpperSet THEN LowerOf[c] ELSE c

\* str.upper() on one character
UpperChar(c) == IF c \in LowerSet THEN UpperOf[c] ELSE c

CasedChars == LowerSet \cup UpperSet

IsCased(c) == c \in CasedChars

\* str.lower()
Lower(s) == [i \in 1..Len(s) |-> LowerChar(s[i])]

\* the character class [a-z0-9] of the slug regexp
SlugChars == LowerSet \cup Range(DigitChars)

IsSlugChar(c) == c \in SlugChars

\* re.sub(r"[^a-z0-9]+", "-", s): every maximal run of other characters
\* becomes one hyphen
RECURSIVE ReSubRuns(_, _)
ReSubRuns(s, inRun) ==
    IF s = << >> THEN << >>
    ELSE IF IsSlugChar(Head(s)) THEN <<Head(s)>> \o ReSubRuns(Tail(s), FALSE)
    ELSE IF inRun THEN ReSubRuns(Tail(s), TRUE)
    ELSE <<"-">> \o ReSubRuns(Tail(s), TRUE)

RECURSIVE LStrip(_)
LStrip(s) ==
    IF s # << >> /\ Head(s) = "-" THEN LStrip(Tail(s)) ELSE s

RECURSIVE RStrip(_)
RStrip(s) ==
    IF s # << >> /\ s[Len(s)] = "-" THEN RStrip(SubSeq(s, 1, Len(s) - 1)) ELSE s

\* str.strip("-")
Strip(s) == RStrip(LStrip(s))

\* _normalize_id that only replaces spaces: value.lower().replace(" ", "-")
NormalizeIdSpacesOnly(value, fallback) ==
    LET slug == Strip([i \in 1..Len(value) |->
                          IF value[i] = " " THEN "-" ELSE LowerChar(value[i])])
    IN  IF slug = << >> THEN fallback ELSE slug

\* MetroMapStore._normalize_id
NormalizeId(value, fallback) ==
    LET slug == Strip(ReSubRuns(Lower(value), FALSE))
    IN  IF slug = << >> THEN fallback ELSE slug

\* str.title(): a cased character is upper-cased when the previous character
\* is not cased and lower-cased otherwise
RECURSIVE TitleFrom(_, _)
TitleFrom(s, prevCased) ==
    IF s = << >> THEN << >>
    ELSE LET c == Head(s)
         IN  <<IF prevCased THEN LowerChar(c) ELSE UpperChar(c)>>
                 \o TitleFrom(Tail(s), IsCased(c))

Title(s) == TitleFrom(s, FALSE)

\* str(counter) in an f-string
RECURSIVE Str(_)
Str(n) ==
    IF n < 10 THEN <<DigitChars[n + 1]>>
    ELSE Str(n \div 10) \o <<DigitChars[(n % 10) + 1]>>

\* -------------------------------------------------------- string literals
s_id == <<"i","d">>
s_line == <<"l","i","n","e">>
s_station == <<"s","t","a","t","i","o","n">>
s_Line_suffix == <<" ","L","i","n","e">>

\* SOLARIZED_COLORS
SOLARIZED_COLORS ==
    << <<"#","2","6","8","b","d","2">>,
       <<"#","2","a","a","1","9","8">>,
       <<"#","8","5","9","9","0","0">>,
       <<"#","b","5","8","9","0","0">>,
       <<"#","c","b","4","b","1","6">>,
       <<"#","d","c","3","2","2","f">>,
       <<"#","d","3","3","6","8","2">>,
       <<"#","6","c","7","1","c","4">> >>

\* ----------------------------------------------------------------- helpers
\* list.index(v): position of the first occurrence, 0 when absent (ValueError)
IndexOf(seq, v) ==
    IF \E i \in 1..Len(seq) : seq[i] = v
    THEN Min({i \in 1..Len(seq) : seq[i] = v})
    ELSE 0

\* list.insert(index, v) for 0 <= index <= len, index counted from 0
ListInsert(seq, index, v) ==
    SubSeq(seq, 1, index) \o <<v>> \o SubSeq(seq, index + 1, Len(seq))

\* {item.id: position for item in items}: the last item with an id wins
DictById(items) ==
    [k \in {items[i].id : i \in 1..Len(items)} |->
        Max({i \in 1..Len(items) : items[i].id = k})]

\* dict.get(key): the position of the object, 0 for None
Get(lookup, key) == IF key \in DOMAIN lookup THEN lookup[key] ELSE 0

\* an index that is not patched
DictSetSkipped(lookup, key, position) == lookup

\* lookup[key] = object, the object being at this position of its list
DictSet(lookup, key, position) ==
    [k \in DOMAIN lookup \cup {key} |-> IF k = key THEN position ELSE lookup[k]]

\* ------------------------------------------------------------ id allocation
\* the while loop of _next_station_id
RECURSIVE NextIdLoop(_, _, _)
NextIdLoop(base, candidate, counter) ==
    IF candidate \in DOMAIN station_lookup
    THEN NextIdLoop(base, base \o <<"-">> \o Str(counter), counter + 1)
    ELSE candidate

\* _next_station_id without the probe of the existing ids
NextStationIdNoProbe(station_name) == NormalizeId(station_name, s_station)

\* _next_station_id that numbers by the size of the index instead of probing
NextStationIdByCount(station_name) ==
    LET base == NormalizeId(station_name, s_station)
    IN  IF base \in DOMAIN station_lookup
        THEN base \o <<"-">> \o Str(Cardinality(DOMAIN station_lookup) + 1)
        ELSE base

\* MetroMapStore._next_station_id
NextStationId(station_name) ==
    LET base == NormalizeId(station_name, s_station)
    IN  NextIdLoop(base, base, 2)

\* --------------------------------------------------------- color allocation
\* _pick_line_color that restarts at the first color when the palette is used up
PickLineColorRestart(requested) ==
    IF requested # None THEN requested
    ELSE LET used == {Lower(map.lines[i].color) : i \in 1..Len(map.lines)}
             free == {i \in 1..Len(SOLARIZED_COLORS) :
                        Lower(SOLARIZED_COLORS[i]) \notin used}
         IN  IF free # {} THEN SOLARIZED_COLORS[Min(free)]
             ELSE SOLARIZED_COLORS[1]

\* _pick_line_color that compares the colors as they are written
PickLineColorCaseSensitive(requested) ==
    IF requested # None THEN requested
    ELSE LET used == {map.lines[i].color : i \in 1..Len(map.lines)}
             free == {i \in 1..Len(SOLARIZED_COLORS) : SOLARIZED_COLORS[i] \notin used}
         IN  IF free # {} THEN SOLARIZED_COLORS[Min(free)]
             ELSE SOLARIZED_COLORS[(Len(map.lines) % Len(SOLARIZED_COLORS)) + 1]

\* MetroMapStore._pick_line_color
PickLineColor(requested) ==
    IF requested # None THEN requested
    ELSE LET used == {Lower(map.lines[i].color) : i \in 1..Len(map.lines)}
             free == {i \in 1..Len(SOLARIZED_COLORS) :
                        Lower(SOLARIZED_COLORS[i]) \notin used}
         IN  IF free # {} THEN SOLARIZED_COLORS[Min(free)]
             ELSE SOLARIZED_COLORS[(Len(map.lines) % Len(SOLARIZED_COLORS)) + 1]

\* ------------------------------------------------------------- orientation
\* _infer_orientation that takes the stations on both sides of the insertion
\* point: idx = min(max(1, insertion_index), len(line.stations) - 1)
InferOrientationStraddling(line, insertion_index) ==
    IF Len(line.stations) >= 2
    THEN LET idx == Min({Max({1, insertion_index}), Len(line.stations) - 1})
             first_id == line.stations[idx]
             second_id == line.stations[idx + 1]
         IN  IF first_id \notin DOMAIN station_lookup
                \/ second_id \notin DOMAIN station_lookup
             THEN [keyError |-> TRUE, orientation |-> "horizontal", direction |-> 1]
             ELSE LET first == map.stations[station_lookup[first_id]]
                      second == map.stations[station_lookup[second_id]]
                      dx == second.x - first.x
                      dy == second.y - first.y
                  IN  IF Abs(dx) >= Abs(dy)
                      THEN [keyError |-> FALSE, orientation |-> "horizontal",
                            direction |-> IF dx >= 0 THEN 1 ELSE -1]
                      ELSE [keyError |-> FALSE, orientation |-> "vertical",
                            direction |-> IF dy >= 0 THEN 1 ELSE -1]
    ELSE [keyError |-> FALSE, orientation |-> "horizontal", direction |-> 1]

\* MetroMapStore._infer_orientation; keyError is the KeyError of
\* self._station_lookup[...] on an id that is not indexed
InferOrientation(line, insertion_index) ==
    IF Len(line.stations) >= 2
    THEN LET idx == Max({1, insertion_index - 1})
             \* Python indexes from 0: line.stations[idx - 1] is element idx
             first_id == line.stations[idx]
             second_id == IF idx < Len(line.stations)
                          THEN line.stations[idx + 1]
                          ELSE line.stations[idx]
         IN  IF first_id \notin DOMAIN station_lookup
                \/ second_id \notin DOMAIN station_lookup
             THEN [keyError |-> TRUE, orientation |-> "horizontal", direction |-> 1]
             ELSE LET first == map.stations[station_lookup[first_id]]
                      second == map.stations[station_lookup[second_id]]
                      dx == second.x - first.x
                      dy == second.y - first.y
                  IN  IF Abs(dx) >= Abs(dy)
                      THEN [keyError |-> FALSE, orientation |-> "horizontal",
                            direction |-> IF dx >= 0 THEN 1 ELSE -1]
                      ELSE [keyError |-> FALSE, orientation |-> "vertical",
                            direction |-> IF dy >= 0 THEN 1 ELSE -1]
    ELSE [keyError |-> FALSE, orientation |-> "horizontal", direction |-> 1]

\* ----------------------------------------------------------------- spacing
\* abs(d) < 1e-6 for a difference d of two grid coordinates; Station.x and
\* Station.y are ints, so the difference is an integer
WithinEpsilon(d) == Abs(d) = 0

\* a spacing rule that asks for two free grid units between the stations of
\* a row and of a column
TooCloseWithinTwo(station, x, y) ==
    \/ WithinEpsilon(station.x - x) /\ WithinEpsilon(station.y - y)
    \/ WithinEpsilon(station.y - y) /\ Abs(station.x - x) < 2 * GRID_X_SPACING
    \/ WithinEpsilon(station.x - x) /\ Abs(station.y - y) < 2 * GRID_Y_SPACING

\* one station of the loop of _has_spacing_conflict
TooClose(station, x, y) ==
    \/ WithinEpsilon(station.x - x) /\ WithinEpsilon(station.y - y)
    \/ WithinEpsilon(station.y - y) /\ Abs(station.x - x) < GRID_X_SPACING
    \/ WithinEpsilon(station.x - x) /\ Abs(station.y - y) < GRID_Y_SPACING

\* _has_spacing_conflict with a loop that stops one station early
HasSpacingConflictSkipLast(x, y) ==
    \E i \in 1..(Len(map.stations) - 1) : TooClose(map.stations[i], x, y)

\* MetroMapStore._has_spacing_conflict
HasSpacingConflict(x, y) ==
    \E i \in 1..Len(map.stations) : TooClose(map.stations[i], x, y)

\* _validate_spacing that keys the occupied set by x alone
ValidateSpacingRaisesSameColumn(metro_map) ==
    \E j \in 1..Len(metro_map.stations) :
        metro_map.stations[j].x \in
            {metro_map.stations[i].x : i \in 1..(j - 1)}

\* MetroMapStore._validate_spacing: TRUE when it raises, i.e. when some
\* station's (x, y) is already in the set of occupied cells
ValidateSpacingRaises(metro_map) ==
    \E j \in 1..Len(metro_map.stations) :
        <<metro_map.stations[j].x, metro_map.stations[j].y>> \in
            {<<metro_map.stations[i].x, metro_map.stations[i].y>> : i \in 1..(j - 1)}

\* ----------------------------------------------------------------- planner
\* MetroMapStore._map_bounds
MapBounds ==
    LET xs == {map.stations[i].x : i \in 1..Len(map.stations)}
        ys == {map.stations[i].y : i \in 1..Len(map.stations)}
    IN  IF xs = {} THEN [min_x |-> 0, max_x |-> 0, min_y |-> 0, max_y |-> 0]
        ELSE [min_x |-> Min(xs), max_x |-> Max(xs),
              min_y |-> Min(ys), max_y |-> Max(ys)]

\* _starting_position without the test for a map without stations
StartingPositionFromBounds ==
    [x |-> MapBounds.max_x + GRID_X_SPACING, y |-> MapBounds.min_y]

\* _starting_position in the row of the largest y instead of the smallest
StartingPositionAtMaxY ==
    IF Len(map.stations) = 0 THEN [x |-> 0, y |-> 0]
    ELSE [x |-> MapBounds.max_x + GRID_X_SPACING, y |-> MapBounds.max_y]

\* MetroMapStore._starting_position
StartingPosition ==
    IF Len(map.stations) = 0 THEN [x |-> 0, y |-> 0]
    ELSE [x |-> MapBounds.max_x + GRID_X_SPACING, y |-> MapBounds.min_y]

NotPlaced == [found |-> FALSE, x |-> 0, y |-> 0]

\* a candidate that moves along the other axis: y for horizontal, x for vertical
LocalCandidateOtherAxis(base, orientation, sign, offset) ==
    LET step == IF orientation = "horizontal" THEN GRID_X_SPACING ELSE GRID_Y_SPACING
    IN  [x |-> base.x + (IF orientation = "horizontal"
                         THEN 0 ELSE step * offset * sign),
         y |-> base.y + (IF orientation = "horizontal"
                         THEN step * offset * sign ELSE 0)]

\* the candidate of one iteration of the inner loop of _plan_coordinates
LocalCandidate(base, orientation, sign, offset) ==
    LET step == IF orientation = "horizontal" THEN GRID_X_SPACING ELSE GRID_Y_SPACING
    IN  [x |-> base.x + (IF orientation = "horizontal"
                         THEN step * offset * sign ELSE 0),
         y |-> base.y + (IF orientation = "horizontal"
                         THEN 0 ELSE step * offset * sign)]

\* the inner loop of _plan_coordinates from one offset on, for one sign:
\* for offset in range(start_offset, 16), with its early return
RECURSIVE ScanOffsets(_, _, _, _)
ScanOffsets(base, orientation, sign, offset) ==
    IF offset > MaxLocalOffset THEN NotPlaced
    ELSE IF ~HasSpacingConflict(LocalCandidate(base, orientation, sign, offset).x,
                                LocalCandidate(base, orientation, sign, offset).y)
    THEN [found |-> TRUE,
          x |-> LocalCandidate(base, orientation, sign, offset).x,
          y |-> LocalCandidate(base, orientation, sign, offset).y]
    ELSE ScanOffsets(base, orientation, sign, offset + 1)

\* a fallback loop that walks from the lower bounds: min_x + delta, min_y + delta
RECURSIVE ScanDiagonalFromMin(_)
ScanDiagonalFromMin(delta) ==
    IF delta > MaxDiagonal THEN NotPlaced
    ELSE IF ~HasSpacingConflict(MapBounds.min_x + delta * GRID_X_SPACING,
                                MapBounds.min_y + delta * GRID_Y_SPACING)
    THEN [found |-> TRUE,
          x |-> MapBounds.min_x + delta * GRID_X_SPACING,
          y |-> MapBounds.min_y + delta * GRID_Y_SPACING]
    ELSE ScanDiagonalFromMin(delta + 1)

\* _plan_coordinates without the fallback loop: the raise follows the local search
ScanDiagonalSkipped(delta) == NotPlaced

\* the diagonal fallback loop from one delta on: for delta in range(1, 20)
RECURSIVE ScanDiagonal(_)
ScanDiagonal(delta) ==
    IF delta > MaxDiagonal THEN NotPlaced
    ELSE IF ~HasSpacingConflict(MapBounds.max_x + delta * GRID_X_SPACING,
                                MapBounds.max_y + delta * GRID_Y_SPACING)
    THEN [found |-> TRUE,
          x |-> MapBounds.max_x + delta * GRID_X_SPACING,
          y |-> MapBounds.max_y + delta * GRID_Y_SPACING]
    ELSE ScanDiagonal(delta + 1)

\* _plan_coordinates with directions = [-preferred, preferred]
PlanCoordinatesOppositeFirst(anchor, orientation, direction) ==
    LET base == IF anchor # 0
                THEN [x |-> map.stations[anchor].x, y |-> map.stations[anchor].y]
                ELSE StartingPosition
        preferred == IF direction # 0 THEN direction ELSE 1
        start_offset == IF anchor # 0 THEN 1 ELSE 0
    IN  IF ScanOffsets(base, orientation, -preferred, start_offset).found
        THEN ScanOffsets(base, orientation, -preferred, start_offset)
        ELSE IF ScanOffsets(base, orientation, preferred, start_offset).found
        THEN ScanOffsets(base, orientation, preferred, start_offset)
        ELSE ScanDiagonal(1)

\* MetroMapStore._plan_coordinates; anchor is the position of the anchor
\* station in map.stations, 0 for None; found = FALSE is the final raise.
\* directions = [preferred, -preferred] is the outer loop.
PlanCoordinates(anchor, orientation, direction) ==
    LET base == IF anchor # 0
                THEN [x |-> map.stations[anchor].x, y |-> map.stations[anchor].y]
                ELSE StartingPosition
        preferred == IF direction # 0 THEN direction ELSE 1
        start_offset == IF anchor # 0 THEN 1 ELSE 0
    IN  IF ScanOffsets(base, orientation, preferred, start_offset).found
        THEN ScanOffsets(base, orientation, preferred, start_offset)
        ELSE IF ScanOffsets(base, orientation, -preferred, start_offset).found
        THEN ScanOffsets(base, orientation, -preferred, start_offset)
        ELSE ScanDiagonal(1)

\* --------------------------------------------------------------- documents
\* names and ids used by the documents and by the calls
s_central == <<"c","e","n","t","r","a","l">>
s_north == <<"n","o","r","t","h">>
s_south == <<"s","o","u","t","h">>
s_north_st == <<"n","o","r","t","h","-","s","t">>
s_ghost == <<"g","h","o","s","t">>
s_metro == <<"m","e","t","r","o">>
s_red == <<"r","e","d">>
s_blue == <<"b","l","u","e">>
s_green == <<"g","r","e","e","n">>
n_Central == <<"C","e","n","t","r","a","l">>
n_North == <<"N","o","r","t","h">>
n_South == <<"S","o","u","t","h">>
n_North_St == <<"N","o","r","t","h"," ","S","t",".">>
n_Red_Line == <<"R","e","d"," ","L","i","n","e">>
n_Blue_Line == <<"B","l","u","e"," ","L","i","n","e">>
n_Green_Line == <<"G","r","e","e","n"," ","L","i","n","e">>
n_Loop == <<"L","o","o","p">>
n_Bang == <<"!">>
c_upper_first == <<"#","2","6","8","B","D","2">>

\* A station of a JSON document.  x and y are JSON numbers with at most one
\* binary digit after the point, written in half grid units (2 is 1, 1 is 0.5).
DocStation(id, name, x, y, lines) ==
    [id |-> id, name |-> name, x |-> x, y |-> y, lines |-> lines]

MkLine(id, name, color, stations) ==
    [id |-> id, name |-> name, color |-> color, stations |-> stations]

\* no stations, no lines
EmptyDoc == [id |-> s_metro, stations |-> << >>, lines |-> << >>]

\* a well-formed map: a horizontal red line, a vertical blue line that
\* shares Central with it, and a green line without stations
CityDoc ==
    [id |-> s_metro,
     stations |->
        << DocStation(s_central, n_Central, 0, 0, <<s_red, s_blue>>),
           DocStation(s_north, n_North, 2, 0, <<s_red>>),
           DocStation(s_south, n_South, 0, 2, <<s_blue>>) >>,
     lines |->
        << MkLine(s_red, n_Red_Line, SOLARIZED_COLORS[6], <<s_central, s_north>>),
           MkLine(s_blue, n_Blue_Line, SOLARIZED_COLORS[1], <<s_central, s_south>>),
           MkLine(s_green, n_Green_Line, SOLARIZED_COLORS[3], << >>) >>]

\* the blue line references a station id that no station has
DanglingDoc ==
    [id |-> s_metro,
     stations |->
        << DocStation(s_central, n_Central, 0, 0, <<s_red>>) >>,
     lines |->
        << MkLine(s_red, n_Red_Line, SOLARIZED_COLORS[6], <<s_central>>),
           MkLine(s_blue, n_Blue_Line, SOLARIZED_COLORS[1], <<s_north_st>>) >>]

\* a loop line: its list ends with the station it starts with
LoopDoc ==
    [id |-> s_metro,
     stations |->
        << DocStation(s_central, n_Central, 0, 0, <<s_red>>),
           DocStation(s_north, n_North, 2, 0, <<s_red>>) >>,
     lines |->
        << MkLine(s_red, n_Red_Line, SOLARIZED_COLORS[6],
                  <<s_central, s_north, s_central>>) >>]

\* two stations with one id, two lines with one id, and a station whose
\* back-reference misses the line that lists it
DuplicateIdsDoc ==
    [id |-> s_metro,
     stations |->
        << DocStation(s_central, n_Central, 0, 0, << >>),
           DocStation(s_central, n_South, 0, 2, << >>) >>,
     lines |->
        << MkLine(s_red, n_Red_Line, SOLARIZED_COLORS[6], <<s_central>>),
           MkLine(s_red, n_Loop, SOLARIZED_COLORS[6], << >>) >>]

\* two stations in one cell
SharedCellDoc ==
    [id |-> s_metro,
     stations |->
        << DocStation(s_central, n_Central, 0, 0, <<s_red>>),
           DocStation(s_north, n_North, 0, 0, <<s_red>>) >>,
     lines |->
        << MkLine(s_red, n_Red_Line, SOLARIZED_COLORS[6], <<s_central, s_north>>) >>]

\* a station at x = 0.5, half a grid unit from its neighbour on the same row
FractionalDoc ==
    [id |-> s_metro,
     stations |->
        << DocStation(s_central, n_Central, 0, 0, <<s_red>>),
           DocStation(s_north, n_North, 1, 0, <<s_red>>) >>,
     lines |->
        << MkLine(s_red, n_Red_Line, SOLARIZED_COLORS[6], <<s_central, s_north>>) >>]

Docs == <<EmptyDoc, CityDoc, DanglingDoc, LoopDoc, DuplicateIdsDoc,
          SharedCellDoc, FractionalDoc>>

\* ------------------------------------------------------------------- load
\* Station.x / Station.y are declared int: validation accepts a JSON number
\* only when it has no fractional part
IsWhole(n) == n % 2 = 0

\* MetroMap.model_validate: TRUE when it raises a ValidationError
SchemaRaises(doc) ==
    \E i \in 1..Len(doc.stations) :
        ~IsWhole(doc.stations[i].x) \/ ~IsWhole(doc.stations[i].y)

\* MetroMap.model_validate: the validated MetroMap of a document it accepts
ModelValidate(doc) ==
    [id |-> doc.id,
     stations |->
        [i \in 1..Len(doc.stations) |->
            [id |-> doc.stations[i].id, name |-> doc.stations[i].name,
             x |-> doc.stations[i].x \div 2, y |-> doc.stations[i].y \div 2,
             lines |-> doc.stations[i].lines]],
     lines |-> doc.lines]

\* what a call left behind for its caller: the operation, how it ended, its
\* arguments (doc: the position in Docs of the document given to update_map,
\* the content of metro_map.json for __post_init__), and the positions in
\* map.stations / map.lines of the objects it returned (0 when it raised)
Outcome(op, status, error, call, doc, station, line) ==
    [op |-> op, status |-> status, error |-> error,
     line_id |-> call.line_id, station_name |-> call.station_name,
     line_name |-> call.line_name, line_color |-> call.line_color,
     after_station_id |-> call.after_station_id,
     doc |-> doc, station |-> station, line |-> line]

\* the arguments of one call of add_station
Call(line_id, station_name, line_name, line_color, after_station_id) ==
    [line_id |-> line_id, station_name |-> station_name,
     line_name |-> line_name, line_color |-> line_color,
     after_station_id |-> after_station_id]

LoadOutcome(d, status, error) ==
    Outcome("update_map", status, error, Call(None, None, None, None, None), d, 0, 0)

\* update_map without the call of _validate_spacing
update_map_unchecked(map_data) ==
    IF SchemaRaises(map_data)
    THEN [raised |-> TRUE, status |-> "ValidationError", error |-> "schema"]
    ELSE [raised |-> FALSE, status |-> "ok", error |-> "none"]

\* MetroMapStore.update_map applied to a document: how it ends; when it
\* returns, ModelValidate(map_data) is the active map
update_map(map_data) ==
    IF SchemaRaises(map_data)
    THEN [raised |-> TRUE, status |-> "ValidationError", error |-> "schema"]
    ELSE IF ValidateSpacingRaises(ModelValidate(map_data))
    THEN [raised |-> TRUE, status |-> "ValueError", error |-> "spacing_conflict"]
    ELSE [raised |-> FALSE, status |-> "ok", error |-> "none"]

\* metro_map.json that holds one map: a document without a "maps" key
SingleMap(doc) ==
    [hasMaps |-> FALSE, maps |-> << >>, defaultMapId |-> None, document |-> doc]

\* no add_station call is in flight
NoCalls == << >>

\* the store after __post_init__ on a metro_map.json that holds one map; the
\* store exists only when update_map returned
Init ==
    \E d \in 1..Len(Docs) :
        /\ ~update_map(Docs[d]).raised
        /\ map = ModelValidate(Docs[d])
        /\ station_lookup = DictById(ModelValidate(Docs[d]).stations)
        /\ line_lookup = DictById(ModelValidate(Docs[d]).lines)
        /\ available_maps = << >>
        /\ calls = NoCalls
        /\ client_tool_call = None
        /\ last = LoadOutcome(d, "ok", "none")
        /\ added = 0

\* update_map that assigns self.map and the lookups before _validate_spacing
\* runs: a spacing error leaves the rejected map active
UpdateMapActivateFirst(d) ==
    \E r \in {update_map(Docs[d])} :
        /\ UNCHANGED <<available_maps, calls, client_tool_call>>
        /\ last' = LoadOutcome(d, r.status, r.error)
        /\ IF SchemaRaises(Docs[d])
           THEN UNCHANGED <<map, station_lookup, line_lookup, added>>
           ELSE /\ map' = ModelValidate(Docs[d])
                /\ station_lookup' = DictById(ModelValidate(Docs[d]).stations)
                /\ line_lookup' = DictById(ModelValidate(Docs[d]).lines)
                /\ added' = 0

\* update_map on a store that has an active map
UpdateMap(d) ==
    \E r \in {update_map(Docs[d])} :
        /\ UNCHANGED <<available_maps, calls, client_tool_call>>
        /\ last' = LoadOutcome(d, r.status, r.error)
        /\ IF r.raised
           THEN UNCHANGED <<map, station_lookup, line_lookup, added>>
           ELSE /\ map' = ModelValidate(Docs[d])
                /\ station_lookup' = DictById(ModelValidate(Docs[d]).stations)
                /\ line_lookup' = DictById(ModelValidate(Docs[d]).lines)
                /\ added' = 0

\* ------------------------------------------------------------ construction
\* the most entries a "maps" list has
MaxMaps == 3

s_city == <<"c","i","t","y">>

\* a JSON value of the "maps" list: an object (a map document) or a value of
\* another type; an object without "id", with a null id or with the id ""
\* has the id None here (entry.get("id") is falsy for all three)
JsonDict(doc) == [isDict |-> TRUE, value |-> doc]
JsonOther == [isDict |-> FALSE, value |-> [EmptyDoc EXCEPT !.id = None]]

CatalogEntries ==
    {JsonDict(EmptyDoc),
     JsonDict([CityDoc EXCEPT !.id = s_city]),
     JsonDict([CityDoc EXCEPT !.id = None]),
     JsonDict([LoopDoc EXCEPT !.id = s_metro]),
     JsonDict([SharedCellDoc EXCEPT !.id = s_city]),
     JsonOther}

DefaultMapIds == {None, s_metro, s_city, s_ghost}

\* metro_map.json that holds a catalog: {"maps": [...], "defaultMapId": ...}
CatalogDoc(maps, defaultMapId) ==
    [hasMaps |-> TRUE, maps |-> maps, defaultMapId |-> defaultMapId,
     document |-> EmptyDoc]

RawDocs ==
    {CatalogDoc(maps, defaultMapId) :
        maps \in UNION {[1..n -> CatalogEntries] : n \in 0..MaxMaps},
        defaultMapId \in DefaultMapIds}
    \cup {SingleMap(Docs[d]) : d \in 1..Len(Docs)}

\* dict.get on the items of a dict: the position of the item, 0 for None
ItemOf(items, key) ==
    IF \E i \in 1..Len(items) : items[i].key = key
    THEN CHOOSE i \in 1..Len(items) : items[i].key = key
    ELSE 0

\* one assignment of a dict comprehension: a new key is appended, a key
\* that is there keeps its place and takes the new value
DictPut(items, key, value) ==
    IF ItemOf(items, key) = 0
    THEN Append(items, [key |-> key, value |-> value])
    ELSE [items EXCEPT ![ItemOf(items, key)].value = value]

\* __post_init__, lines 64-68: the items of the catalog built from the first
\* n entries
RECURSIVE Catalog(_, _)
Catalog(maps, n) ==
    IF n = 0 THEN << >>
    ELSE IF maps[n].isDict /\ maps[n].value.id # None
    THEN DictPut(Catalog(maps, n - 1), maps[n].value.id, maps[n].value)
    ELSE Catalog(maps, n - 1)

\* lines 72-74 with the default id ignored
SelectMapFirst(catalog, requested_id) == catalog[1].value

\* __post_init__, lines 72-74: the selected map of a catalog that has items
SelectMap(catalog, requested_id) ==
    LET selected == IF requested_id # None THEN ItemOf(catalog, requested_id) ELSE 0
    IN  IF selected # 0 THEN catalog[selected].value ELSE catalog[1].value

\* MetroMapStore.__post_init__ on the content of metro_map.json: the catalog
\* it keeps, the map it hands to update_map and how it ends
post_init(raw) ==
    LET catalog == IF raw.hasMaps THEN Catalog(raw.maps, Len(raw.maps)) ELSE << >>
    IN  IF raw.hasMaps /\ catalog = << >>
        THEN [raised |-> TRUE, status |-> "ValueError", error |-> "no_maps",
              assigned |-> FALSE, catalog |-> catalog, selected_map |-> EmptyDoc]
        ELSE LET selected_map == IF raw.hasMaps
                                 THEN SelectMap(catalog, raw.defaultMapId)
                                 ELSE raw.document
                 r == update_map(selected_map)
             IN  [raised |-> r.raised, status |-> r.status, error |-> r.error,
                  assigned |-> TRUE, catalog |-> catalog,
                  selected_map |-> selected_map]

NoMap == ModelValidate([EmptyDoc EXCEPT !.id = None])

\* no method of the store has been called
NotConstructed == Outcome("new", "none", "none", Call(None, None, None, None, None), 0, 0, 0)

\* no store yet
InitLoad ==
    /\ map = NoMap
    /\ station_lookup = << >>
    /\ line_lookup = << >>
    /\ available_maps = << >>
    /\ calls = NoCalls
    /\ client_tool_call = None
    /\ last = NotConstructed
    /\ added = 0

\* MetroMapStore(data_dir) with raw as the content of metro_map.json
PostInit(raw) ==
    /\ last.op = "new"
    /\ \E r \in {post_init(raw)} :
        /\ last' = Outcome("__post_init__", r.status, r.error,
                           Call(None, None, None, None, None), raw, 0, 0)
        /\ available_maps' = IF r.assigned THEN r.catalog ELSE available_maps
        /\ IF r.raised
           THEN UNCHANGED <<map, station_lookup, line_lookup>>
           ELSE /\ map' = ModelValidate(r.selected_map)
                /\ station_lookup' = DictById(ModelValidate(r.selected_map).stations)
                /\ line_lookup' = DictById(ModelValidate(r.selected_map).lines)
        /\ UNCHANGED <<calls, client_tool_call, added>>

NextLoad == \E raw \in RawDocs : PostInit(raw)

SpecLoad == InitLoad /\ [][NextLoad]_vars

\* ----------------------------------------------------------------- queries
\* MetroMapStore.find_station: the position of the station, 0 for None
find_station(station_id) == Get(station_lookup, station_id)

\* MetroMapStore.find_line: the position of the line, 0 for None
find_line(line_id) == Get(line_lookup, line_id)

\* the loop of stations_for_line over the first n ids of a line
RECURSIVE StationsForIds(_, _)
StationsForIds(ids, n) ==
    IF n = 0 THEN << >>
    ELSE IF Get(station_lookup, ids[n]) # 0
    THEN Append(StationsForIds(ids, n - 1), Get(station_lookup, ids[n]))
    ELSE StationsForIds(ids, n - 1)

\* MetroMapStore.stations_for_line: the positions of the stations
stations_for_line(line_id) ==
    IF Get(line_lookup, line_id) = 0 THEN << >>
    ELSE StationsForIds(map.lines[line_lookup[line_id]].stations,
                        Len(map.lines[line_lookup[line_id]].stations))

\* interchanges() of a map: the positions of the stations it returns
interchanges_of(m) == {i \in 1..Len(m.stations) : Len(m.stations[i].lines) > 1}

\* MetroMapStore.interchanges
interchanges == interchanges_of(map)

\* ------------------------------------------------------------ add_station
\* the arguments the calls are drawn from
LineIdArgs == {s_red, n_Blue_Line, n_Bang}
StationNameArgs == {n_Central, n_North_St}
\* line_name and line_color are used independently of each other (line 151,
\* line 150) and only when a line is created: both omitted, or both given
LineStyleArgs == {[line_name |-> None, line_color |-> None],
                  [line_name |-> n_Loop, line_color |-> c_upper_first]}
AfterStationArgs == {None, s_central, s_ghost}

\* lines 139-147 without the loop over the line names
ResolveLineByIdOnly(line_id) ==
    IF Get(line_lookup, line_id) # 0 THEN Get(line_lookup, line_id)
    ELSE Get(line_lookup, NormalizeId(line_id, s_line))

\* add_station, lines 139-147: the position in map.lines of the line the
\* call resolves to, 0 when line is still None after the three lookups
ResolveLine(line_id) ==
    LET normalized_line_id == NormalizeId(line_id, s_line)
        by_id == IF Get(line_lookup, line_id) # 0
                 THEN Get(line_lookup, line_id)
                 ELSE Get(line_lookup, normalized_line_id)
        by_name == {i \in 1..Len(map.lines) :
                      NormalizeId(map.lines[i].name, s_id) = normalized_line_id}
    IN  IF by_id # 0 THEN by_id
        ELSE IF by_name # {} THEN Min(by_name)
        ELSE 0

\* add_station, lines 150-152: the Line built when none was resolved
CreateLine(normalized_line_id, line_name, line_color) ==
    MkLine(normalized_line_id,
           IF line_name # None THEN line_name
           ELSE Title(normalized_line_id) \o s_Line_suffix,
           PickLineColor(line_color),
           << >>)

\* lines 156-163 with the anchor looked up whenever after_station_id is
\* given, also on a line without stations
ResolveAnchorStrict(line, after_station_id) ==
    IF line.stations # << >> \/ after_station_id # None
    THEN LET anchor_id == IF after_station_id # None THEN after_station_id
                          ELSE line.stations[Len(line.stations)]
             anchor_station == Get(station_lookup, anchor_id)
         IN  IF anchor_station = 0
             THEN [error |-> "not_on_line", anchor |-> 0, insertion_index |-> 0]
             ELSE IF IndexOf(line.stations, map.stations[anchor_station].id) = 0
             THEN [error |-> "not_in_list", anchor |-> 0, insertion_index |-> 0]
             ELSE [error |-> "none", anchor |-> anchor_station,
                   insertion_index |->
                       IndexOf(line.stations, map.stations[anchor_station].id)]
    ELSE [error |-> "none", anchor |-> 0, insertion_index |-> Len(line.stations)]

\* add_station, lines 156-163: the anchor station (its position in
\* map.stations, 0 for None) and the insertion index, or the error raised
ResolveAnchor(line, after_station_id) ==
    IF line.stations # << >>
    THEN LET anchor_id == IF after_station_id # None THEN after_station_id
                          ELSE line.stations[Len(line.stations)]
             anchor_station == Get(station_lookup, anchor_id)
         IN  IF anchor_station = 0
             THEN [error |-> "not_on_line", anchor |-> 0, insertion_index |-> 0]
             ELSE IF IndexOf(line.stations, map.stations[anchor_station].id) = 0
             THEN [error |-> "not_in_list", anchor |-> 0, insertion_index |-> 0]
             ELSE [error |-> "none", anchor |-> anchor_station,
                   insertion_index |->
                       IndexOf(line.stations, map.stations[anchor_station].id)]
    ELSE [error |-> "none", anchor |-> 0, insertion_index |-> Len(line.stations)]

\* lines 169-175 with a back-reference to every line of the map
NewStationOnEveryLine(station_id, station_name, x, y, line) ==
    [id |-> station_id, name |-> station_name, x |-> x, y |-> y,
     lines |-> [i \in 1..Len(map.lines) |-> map.lines[i].id] \o <<line.id>>]

\* lines 169-175 without the back-reference to the line
NewStationNoBackRef(station_id, station_name, x, y, line) ==
    [id |-> station_id, name |-> station_name, x |-> x, y |-> y,
     lines |-> << >>]

\* add_station, lines 169-175
NewStation(station_id, station_name, x, y, line) ==
    [id |-> station_id, name |-> station_name, x |-> x, y |-> y,
     lines |-> <<line.id>>]

\* line 180 that also re-derives the display name of the line
SpliceLineRetitle(line, insertion_index, station_id) ==
    [line EXCEPT !.stations = ListInsert(line.stations, insertion_index, station_id),
                 !.name = Title(line.id) \o s_Line_suffix]

\* add_station, line 180
SpliceLine(line, insertion_index, station_id) ==
    [line EXCEPT !.stations = ListInsert(line.stations, insertion_index, station_id)]

\* MetroMapStore.add_station from the state [map, station_lookup,
\* line_lookup]: the state it leaves and what it returns or raises.  The
\* line created at lines 149-154 is part of the state it leaves also when a
\* later statement raises.
add_station(line_id, station_name, line_name, line_color, after_station_id) ==
    LET normalized_line_id == NormalizeId(line_id, s_line)
        resolved == ResolveLine(line_id)
        lines1 == IF resolved = 0
                  THEN Append(map.lines,
                              CreateLine(normalized_line_id, line_name, line_color))
                  ELSE map.lines
        line_lookup1 == IF resolved = 0
                        THEN DictSet(line_lookup, lines1[Len(lines1)].id, Len(lines1))
                        ELSE line_lookup
        li == IF resolved = 0 THEN Len(lines1) ELSE resolved
        line == lines1[li]
        a == ResolveAnchor(line, after_station_id)
        station_id == NextStationId(station_name)
        o == InferOrientation(line, a.insertion_index)
        p == PlanCoordinates(a.anchor, o.orientation, o.direction)
        station == NewStation(station_id, station_name, p.x, p.y, line)
        raised(status, error) ==
            [map |-> [map EXCEPT !.lines = lines1],
             station_lookup |-> station_lookup,
             line_lookup |-> line_lookup1,
             status |-> status, error |-> error, station |-> 0, line |-> 0]
    IN  IF a.error # "none" THEN raised("ValueError", a.error)
        ELSE IF o.keyError THEN raised("KeyError", "key_error")
        ELSE IF ~p.found THEN raised("ValueError", "unable_to_place")
        ELSE [map |-> [map EXCEPT
                          !.stations = Append(map.stations, station),
                          !.lines = [lines1 EXCEPT
                                       ![li] = SpliceLine(line, a.insertion_index,
                                                          station.id)]],
              station_lookup |->
                  DictSet(station_lookup, station.id, Len(map.stations) + 1),
              line_lookup |-> line_lookup1,
              status |-> "ok", error |-> "none",
              station |-> Len(map.stations) + 1, line |-> li]

\* one call of MetroMapStore.add_station, run to its end
DoAddStation(line_id, station_name, line_name, line_color, after_station_id) ==
    /\ \E r \in {add_station(line_id, station_name, line_name, line_color,
                              after_station_id)} :
        /\ map' = r.map
        /\ station_lookup' = r.station_lookup
        /\ line_lookup' = r.line_lookup
        /\ UNCHANGED <<available_maps, calls, client_tool_call>>
        /\ last' = Outcome("add_station", r.status, r.error,
                           Call(line_id, station_name, line_name, line_color,
                                after_station_id),
                           0, r.station, r.line)
        /\ added' = IF r.status = "ok" THEN added + 1 ELSE added

AddStation(line_id, station_name, line_name, line_color, after_station_id) ==
    /\ added < MaxAdds
    /\ DoAddStation(line_id, station_name, line_name, line_color, after_station_id)

Next ==
    \/ \E line_id \in LineIdArgs, station_name \in StationNameArgs,
          style \in LineStyleArgs, after_station_id \in AfterStationArgs :
            AddStation(line_id, station_name, style.line_name, style.line_color,
                       after_station_id)
    \/ \E d \in 1..Len(Docs) : UpdateMap(d)

Spec == Init /\ [][Next]_vars

\* the store right after update_map(doc) returned
Loaded(doc) ==
    /\ map = ModelValidate(doc)
    /\ station_lookup = DictById(ModelValidate(doc).stations)
    /\ line_lookup = DictById(ModelValidate(doc).lines)
    /\ available_maps = << >>
    /\ calls = NoCalls
    /\ client_tool_call = None
    /\ last = LoadOutcome(0, "ok", "none")
    /\ added = 0

\* ------------------------------------------------------- station id chains
\* number of successful add_station calls explored in SpecIds
MaxIdAdds == 3

s_central_3 == <<"c","e","n","t","r","a","l","-","3">>
n_Central_2 == <<"C","e","n","t","r","a","l"," ","2">>

\* central and central-3 are taken, central-2 is free
GapDoc ==
    [id |-> s_metro,
     stations |->
        << DocStation(s_central, n_Central, 0, 0, <<s_red>>),
           DocStation(s_central_3, n_Central, 2, 0, <<s_red>>) >>,
     lines |->
        << MkLine(s_red, n_Red_Line, SOLARIZED_COLORS[6], <<s_central, s_central_3>>) >>]

IdDocs == {EmptyDoc, CityDoc, GapDoc}
IdNameArgs == {n_Central, n_Central_2, n_Bang}

InitIds == \E doc \in IdDocs : Loaded(doc)

\* add_station(line_id="red", station_name=...)
AddNamed(station_name) ==
    /\ added < MaxIdAdds
    /\ DoAddStation(s_red, station_name, None, None, None)

NextIds == \E station_name \in IdNameArgs : AddNamed(station_name)

SpecIds == InitIds /\ [][NextIds]_vars

\* ------------------------------------------------------- line color chains
\* the most lines a map of SpecPalette has
MaxLines == 10

PaletteDocs == {EmptyDoc, CityDoc}
PaletteColorArgs == {None, c_upper_first}

\* a line id no line of a map with k - 1 lines created here has
FreshLineId(k) == <<"l">> \o Str(k)

InitPalette == \E doc \in PaletteDocs : Loaded(doc)

\* add_station(line_id=<an id that resolves to no line>, station_name="Central",
\* line_color=...)
AddOnNewLine(line_color) ==
    /\ Len(map.lines) < MaxLines
    /\ DoAddStation(FreshLineId(Len(map.lines) + 1), n_Central, None, line_color, None)

NextPalette == \E line_color \in PaletteColorArgs : AddOnNewLine(line_color)

SpecPalette == InitPalette /\ [][NextPalette]_vars

\* ------------------------------------------------------- line resolution
\* number of successful add_station calls explored in SpecResolve
MaxResolveAdds == 2

s_x == <<"x">>
s_red_line == <<"r","e","d","-","l","i","n","e">>
n_RED == <<"R","E","D">>
n_red_line_lower == <<"r","e","d"," ","l","i","n","e">>

\* a line whose name has no letter and no digit
PunctDoc ==
    [id |-> s_metro,
     stations |-> << DocStation(s_central, n_Central, 0, 0, <<s_x>>) >>,
     lines |-> << MkLine(s_x, n_Bang, SOLARIZED_COLORS[1], <<s_central>>) >>]

ResolveDocs == {EmptyDoc, CityDoc, DuplicateIdsDoc, PunctDoc}
ResolveLineIdArgs == {s_red, n_RED, n_red_line_lower, s_red_line, n_Bang, s_id, n_Loop}

InitResolve == \E doc \in ResolveDocs : Loaded(doc)

\* add_station(line_id=..., station_name="Central", line_name=..., line_color=...)
AddOnLine(line_id, line_name, line_color) ==
    /\ added < MaxResolveAdds
    /\ DoAddStation(line_id, n_Central, line_name, line_color, None)

NextResolve ==
    \E line_id \in ResolveLineIdArgs, style \in LineStyleArgs :
        AddOnLine(line_id, style.line_name, style.line_color)

SpecResolve == InitResolve /\ [][NextResolve]_vars

\* ------------------------------------------------- add_station in threads
\* Two threads call add_station on one store.  A thread is preempted only
\* between lines 163 and 165 and between lines 167 and 169: a call is three
\* steps, lines 139-163 (the line and the anchor), lines 165-167 (the id and
\* the coordinates) and lines 169-180 (the station, the index, the splice).
Threads == {1, 2}

\* the most calls one thread makes
MaxThreadCalls == 1

ThreadDocs == {EmptyDoc, CityDoc}
ThreadLineIdArgs == {s_red, n_Bang}
ThreadStationNameArgs == {n_Central, n_North_St}

\* the local variables of a thread that is not in add_station; overlapped
\* and count are history: whether a call of the thread has been in flight
\* together with a call of the other thread, and how many calls it has made
IdleCall ==
    [pc |-> "idle", overlapped |-> FALSE, count |-> 0,
     line_id |-> None, station_name |-> None, after_station_id |-> None,
     line |-> 0, insertion_index |-> 0, anchor_station |-> 0,
     station_id |-> None, x |-> 0, y |-> 0]

InitThreads ==
    \E doc \in ThreadDocs :
        /\ map = ModelValidate(doc)
        /\ station_lookup = DictById(ModelValidate(doc).stations)
        /\ line_lookup = DictById(ModelValidate(doc).lines)
        /\ available_maps = << >>
        /\ calls = [t \in Threads |-> IdleCall]
        /\ client_tool_call = None
        /\ last = LoadOutcome(0, "ok", "none")
        /\ added = 0

\* the call of thread t ends: its locals are gone
Ended(t) ==
    [calls EXCEPT ![t] = [IdleCall EXCEPT !.overlapped = calls[t].overlapped,
                                          !.count = calls[t].count]]

ThreadOutcome(t, status, error, station, line) ==
    Outcome("add_station", status, error,
            Call(calls[t].line_id, calls[t].station_name, None, None,
                 calls[t].after_station_id),
            0, station, line)

\* lines 139-163 of a call add_station(line_id=..., station_name=...,
\* after_station_id=...) in thread t
Begin(t, line_id, station_name, after_station_id) ==
    /\ calls[t].pc = "idle"
    /\ calls[t].count < MaxThreadCalls
    /\ LET resolved == ResolveLine(line_id)
           lines1 == IF resolved = 0
                     THEN Append(map.lines,
                                 CreateLine(NormalizeId(line_id, s_line), None, None))
                     ELSE map.lines
           li == IF resolved = 0 THEN Len(lines1) ELSE resolved
           a == ResolveAnchor(lines1[li], after_station_id)
           busy == \E u \in Threads : u # t /\ calls[u].pc # "idle"
           started == [calls EXCEPT
                         ![t] = [pc |-> "allocate",
                                 overlapped |-> calls[t].overlapped \/ busy,
                                 count |-> calls[t].count + 1,
                                 line_id |-> line_id, station_name |-> station_name,
                                 after_station_id |-> after_station_id,
                                 line |-> li, insertion_index |-> a.insertion_index,
                                 anchor_station |-> a.anchor,
                                 station_id |-> None, x |-> 0, y |-> 0]]
           marked == [u \in Threads |->
                         IF u # t /\ calls[u].pc # "idle"
                         THEN [started[u] EXCEPT !.overlapped = TRUE]
                         ELSE started[u]]
       IN  /\ map' = [map EXCEPT !.lines = lines1]
           /\ line_lookup' = IF resolved = 0
                             THEN DictSet(line_lookup, lines1[li].id, li)
                             ELSE line_lookup
           /\ IF a.error # "none"
              THEN /\ calls' = [marked EXCEPT
                                  ![t] = [IdleCall EXCEPT
                                            !.overlapped = marked[t].overlapped,
                                            !.count = marked[t].count]]
                   /\ last' = Outcome("add_station", "ValueError", a.error,
                                      Call(line_id, station_name, None, None,
                                           after_station_id), 0, 0, 0)
              ELSE /\ calls' = marked
                   /\ UNCHANGED last
           /\ UNCHANGED <<station_lookup, available_maps, client_tool_call, added>>

\* lines 165-167 of the call of thread t
Allocate(t) ==
    /\ calls[t].pc = "allocate"
    /\ LET station_id == NextStationId(calls[t].station_name)
           o == InferOrientation(map.lines[calls[t].line], calls[t].insertion_index)
           p == PlanCoordinates(calls[t].anchor_station, o.orientation, o.direction)
       IN  IF o.keyError
           THEN /\ calls' = Ended(t)
                /\ last' = ThreadOutcome(t, "KeyError", "key_error", 0, 0)
           ELSE IF ~p.found
           THEN /\ calls' = Ended(t)
                /\ last' = ThreadOutcome(t, "ValueError", "unable_to_place", 0, 0)
           ELSE /\ calls' = [calls EXCEPT ![t].pc = "commit",
                                          ![t].station_id = station_id,
                                          ![t].x = p.x, ![t].y = p.y]
                /\ UNCHANGED last
    /\ UNCHANGED <<map, station_lookup, line_lookup, available_maps,
                   client_tool_call, added>>

\* lines 169-181 of the call of thread t
Commit(t) ==
    /\ calls[t].pc = "commit"
    /\ LET line == map.lines[calls[t].line]
           station == NewStation(calls[t].station_id, calls[t].station_name,
                                 calls[t].x, calls[t].y, line)
       IN  /\ map' = [map EXCEPT
                        !.stations = Append(map.stations, station),
                        !.lines[calls[t].line] =
                            SpliceLine(line, calls[t].insertion_index, station.id)]
           /\ station_lookup' = DictSet(station_lookup, station.id, Len(map.stations) + 1)
           /\ last' = ThreadOutcome(t, "ok", "none", Len(map.stations) + 1, calls[t].line)
    /\ calls' = Ended(t)
    /\ added' = added + 1
    /\ UNCHANGED <<line_lookup, available_maps, client_tool_call>>

NextThreads ==
    \/ \E t \in Threads, line_id \in ThreadLineIdArgs,
          station_name \in ThreadStationNameArgs, after_station_id \in {None} :
            Begin(t, line_id, station_name, after_station_id)
    \/ \E t \in Threads : Allocate(t)
    \/ \E t \in Threads : Commit(t)

SpecThreads == InitThreads /\ [][NextThreads]_vars

\* ----------------------------------------------------- the agent's tool
\* str.strip() on names whose only whitespace is the space
RECURSIVE LStripSpaces(_)
LStripSpaces(s) ==
    IF s # << >> /\ Head(s) = " " THEN LStripSpaces(Tail(s)) ELSE s

RECURSIVE RStripSpaces(_)
RStripSpaces(s) ==
    IF s # << >> /\ s[Len(s)] = " "
    THEN RStripSpaces(SubSeq(s, 1, Len(s) - 1)) ELSE s

StripSpaces(s) == RStripSpaces(LStripSpaces(s))

\* The call metro.add_station(station_name, line_id, append) of the tool:
\* MetroMapStore.add_station(self, *, line_id, station_name, ...) takes its
\* arguments by keyword only, so a call that gives n > 0 of them by position
\* raises TypeError before the body runs.
CallRaisesTypeError(positional) == positional > 0

\* e.message in the except clause: the exceptions of Python 3 have no
\* attribute message, the lookup raises AttributeError
HasMessageAttribute(exception) == FALSE

n_central_padded == <<" ","c","e","n","t","r","a","l"," ">>
n_north_station == <<"n","o","r","t","h"," ","s","t","a","t","i","o","n">>

AgentDocs == {Docs[d] : d \in {d \in 1..Len(Docs) : ~update_map(Docs[d]).raised}}
AgentStationNameArgs ==
    {n_Central, n_central_padded, n_north_station, n_North_St, n_Bang}
AgentLineIdArgs == {s_red, s_blue, s_ghost}

\* what a call of the tool left behind: the outcome and the append flag
AgentOutcome(status, error, station_name, line_id, append, station, line) ==
    Outcome("agent_add_station", status, error,
            Call(line_id, station_name, None, None, None), 0, station, line)
      @@ [append |-> append]

\* the tool add_station of the agent, lines 151-174: how it ends, and
\* whether the message of the except clause was streamed.  The exception the
\* except clause catches is the TypeError of the call; a call that returned
\* would hand back a tuple, and updated_map.model_dump would raise
\* AttributeError into the same clause.
agent_add_station(station_name, line_id, append) ==
    LET raised == IF CallRaisesTypeError(3) THEN "TypeError" ELSE "AttributeError"
    IN  IF HasMessageAttribute(raised)
        THEN [status |-> raised, error |-> "message_streamed"]
        ELSE [status |-> "AttributeError", error |-> "no_attribute_message"]

InitAgent == \E doc \in AgentDocs : Loaded(doc)

\* the agent calls its tool add_station
AgentAddStation(station_name, line_id, append) ==
    /\ \E r \in {agent_add_station(Title(StripSpaces(station_name)), line_id, append)} :
        last' = AgentOutcome(r.status, r.error, Title(StripSpaces(station_name)),
                             line_id, append, 0, 0)
    /\ UNCHANGED <<map, station_lookup, line_lookup, available_maps, calls,
                   client_tool_call, added>>

NextAgent ==
    \E station_name \in AgentStationNameArgs, line_id \in AgentLineIdArgs,
       append \in BOOLEAN :
        AgentAddStation(station_name, line_id, append)

SpecAgent == InitAgent /\ [][NextAgent]_vars

\* ------------------------------------------------- add_station on long lines
\* number of successful add_station calls explored in SpecPlanner
MaxPlanAdds == 2

s_p == <<"p">>
s_q == <<"q">>

\* the id (and name) of station k of a path, and of station k off the path
PathStationId(k) == s_p \o Str(k)
OtherStationId(k) == s_q \o Str(k)

\* A map whose red line runs through the cells of a path in their order:
\* station p<k> is in cell path[k].  The blue line lists the stations q<k> in
\* the cells others[k].  A cell is <<x, y>> in grid units.
PathDoc(path, others) ==
    [id |-> s_metro,
     stations |->
        [k \in 1..Len(path) |->
            DocStation(PathStationId(k), PathStationId(k),
                       2 * path[k][1], 2 * path[k][2], <<s_red>>)]
        \o [k \in 1..Len(others) |->
               DocStation(OtherStationId(k), OtherStationId(k),
                          2 * others[k][1], 2 * others[k][2], <<s_blue>>)],
     lines |->
        << MkLine(s_red, n_Red_Line, SOLARIZED_COLORS[6],
                  [k \in 1..Len(path) |-> PathStationId(k)]),
           MkLine(s_blue, n_Blue_Line, SOLARIZED_COLORS[1],
                  [k \in 1..Len(others) |-> OtherStationId(k)]) >>]

\* the cells of row 0 from x = -west to x = east, west to east
Row(west, east) == [k \in 1..(west + east + 1) |-> <<k - west - 1, 0>>]

\* a path walked from its other end
Reversed(path) == [k \in 1..Len(path) |-> path[Len(path) + 1 - k]]

\* a path mirrored at the diagonal: rows become columns
Transposed(path) == [k \in 1..Len(path) |-> <<path[k][2], path[k][1]>>]

\* paths with corners, with a diagonal segment (|dx| = |dy|) and with a
\* segment longer than a grid unit
StairsPath == << <<0, 0>>, <<1, 0>>, <<1, 1>>, <<2, 1>> >>
DownStairsPath == << <<0, 0>>, <<0, -1>>, <<-1, -1>>, <<-1, -2>> >>
SlantedPath == << <<0, 0>>, <<1, 1>>, <<2, 3>>, <<1, 5>>, <<-2, 5>> >>

\* stations off the path that widen the bounding box of the map
FarCells == << <<20, 7>>, <<-20, -7>> >>

PlanDocs ==
    {PathDoc(path, << >>) :
        path \in {Row(0, 1), Row(2, 15), Row(15, 14), Row(14, 15), Row(15, 15),
                  Reversed(Row(0, 1)), Reversed(Row(15, 15)),
                  Transposed(Row(15, 15)),
                  StairsPath, DownStairsPath, SlantedPath,
                  Reversed(SlantedPath)}}
    \cup {PathDoc(path, FarCells) : path \in {Row(15, 15), Transposed(Row(15, 15)),
                                               StairsPath}}

PlanAfterStationArgs ==
    {None, PathStationId(1), PathStationId(2), PathStationId(3), PathStationId(16)}
PlanLineIdArgs == {s_red, s_blue, n_Bang}

InitPlanner == \E doc \in PlanDocs : Loaded(doc)

\* add_station(line_id=..., station_name="Central", after_station_id=...)
AddAfter(line_id, after_station_id) ==
    /\ added < MaxPlanAdds
    /\ DoAddStation(line_id, n_Central, None, None, after_station_id)

NextPlanner ==
    \E line_id \in PlanLineIdArgs, after_station_id \in PlanAfterStationArgs :
        AddAfter(line_id, after_station_id)

SpecPlanner == InitPlanner /\ [][NextPlanner]_vars

\* ------------------------------------------- add_station, loop by loop
\* One call of add_station at a time, taken one loop iteration at a step:
\* the while loop of _next_station_id, the two nested for loops of
\* _plan_coordinates and its fallback loop.  calls holds the local variables
\* of the call and, as history, how often each loop tested a candidate.
\* the most calls of add_station explored in SpecLoops
MaxLoopCalls == 2

LoopDocs ==
    {EmptyDoc, GapDoc, PathDoc(Row(0, 1), << >>), PathDoc(Row(2, 15), << >>),
     PathDoc(Row(15, 15), << >>), PathDoc(Transposed(Row(15, 15)), FarCells)}
LoopLineIdArgs == {s_red, s_green}
LoopStationNameArgs == {n_Central, PathStationId(1)}
LoopAfterStationArgs == {None, PathStationId(16)}

\* start_offset that is 0 also when there is an anchor
StartOffsetZero(anchor) == 0

\* _plan_coordinates, line 278: start_offset = 1 if anchor else 0
StartOffset(anchor) == IF anchor # 0 THEN 1 ELSE 0

\* the local variables before the first call
IdleLoop ==
    [pc |-> "idle", count |-> 0,
     line_id |-> None, station_name |-> None, after_station_id |-> None,
     line |-> 0, insertion_index |-> 0, anchor_station |-> 0,
     base |-> None, candidate |-> None, counter |-> 2, station_id |-> None,
     orientation |-> "horizontal", preferred |-> 1, which |-> 1, offset |-> 0,
     base_x |-> 0, base_y |-> 0, delta |-> 1, x |-> 0, y |-> 0,
     id_tests |-> 0, local_tests |-> 0, diagonal_tests |-> 0]

InitLoops ==
    \E doc \in LoopDocs :
        /\ map = ModelValidate(doc)
        /\ station_lookup = DictById(ModelValidate(doc).stations)
        /\ line_lookup = DictById(ModelValidate(doc).lines)
        /\ available_maps = << >>
        /\ calls = IdleLoop
        /\ client_tool_call = None
        /\ last = LoadOutcome(0, "ok", "none")
        /\ added = 0

\* what the call in flight leaves behind when it ends
LoopOutcome(status, error, station, line) ==
    Outcome("add_station", status, error,
            Call(calls.line_id, calls.station_name, None, None,
                 calls.after_station_id),
            0, station, line)

\* lines 139-163 of a call, and lines 202-204 of _next_station_id
EnterCall(line_id, station_name, after_station_id) ==
    /\ calls.pc = "idle"
    /\ calls.count < MaxLoopCalls
    /\ LET resolved == ResolveLine(line_id)
           lines1 == IF resolved = 0
                     THEN Append(map.lines,
                                 CreateLine(NormalizeId(line_id, s_line), None, None))
                     ELSE map.lines
           li == IF resolved = 0 THEN Len(lines1) ELSE resolved
           a == ResolveAnchor(lines1[li], after_station_id)
           entered == [IdleLoop EXCEPT
                         !.count = calls.count + 1,
                         !.line_id = line_id, !.station_name = station_name,
                         !.after_station_id = after_station_id,
                         !.line = li, !.insertion_index = a.insertion_index,
                         !.anchor_station = a.anchor,
                         !.base = NormalizeId(station_name, s_station),
                         !.candidate = NormalizeId(station_name, s_station),
                         !.counter = 2]
       IN  /\ map' = [map EXCEPT !.lines = lines1]
           /\ line_lookup' = IF resolved = 0
                             THEN DictSet(line_lookup, lines1[li].id, li)
                             ELSE line_lookup
           /\ IF a.error # "none"
              THEN /\ calls' = entered
                   /\ last' = Outcome("add_station", "ValueError", a.error,
                                      Call(line_id, station_name, None, None,
                                           after_station_id), 0, 0, 0)
              ELSE /\ calls' = [entered EXCEPT !.pc = "probe"]
                   /\ UNCHANGED last
    /\ UNCHANGED <<station_lookup, available_maps, client_tool_call, added>>

\* one test of `while candidate in self._station_lookup` and, when it holds,
\* the body of the loop (lines 205-207); line 208 when it does not
ProbeId ==
    /\ calls.pc = "probe"
    /\ calls' = IF calls.candidate \in DOMAIN station_lookup
                THEN [calls EXCEPT
                        !.candidate = calls.base \o <<"-">> \o Str(calls.counter),
                        !.counter = calls.counter + 1,
                        !.id_tests = calls.id_tests + 1]
                ELSE [calls EXCEPT
                        !.pc = "orient",
                        !.station_id = calls.candidate,
                        !.id_tests = calls.id_tests + 1]
    /\ UNCHANGED <<map, station_lookup, line_lookup, available_maps,
                   client_tool_call, last, added>>

\* line 166, and lines 274-278 of _plan_coordinates
Orient ==
    /\ calls.pc = "orient"
    /\ \E o \in {InferOrientation(map.lines[calls.line], calls.insertion_index)} :
          IF o.keyError
          THEN /\ calls' = [calls EXCEPT !.pc = "idle"]
               /\ last' = LoopOutcome("KeyError", "key_error", 0, 0)
          ELSE /\ calls' =
                    [calls EXCEPT
                       !.pc = "local",
                       !.orientation = o.orientation,
                       !.preferred = IF o.direction # 0 THEN o.direction ELSE 1,
                       !.which = 1,
                       !.offset = StartOffset(calls.anchor_station),
                       !.base_x = IF calls.anchor_station # 0
                                  THEN map.stations[calls.anchor_station].x
                                  ELSE StartingPosition.x,
                       !.base_y = IF calls.anchor_station # 0
                                  THEN map.stations[calls.anchor_station].y
                                  ELSE StartingPosition.y]
               /\ UNCHANGED last
    /\ UNCHANGED <<map, station_lookup, line_lookup, available_maps,
                   client_tool_call, added>>

\* one iteration of `for offset in range(start_offset, 16)` inside
\* `for sign in directions` (lines 280-289): which is the position of sign
\* in directions
TryOffset ==
    /\ calls.pc = "local"
    /\ \E c \in {LocalCandidate([x |-> calls.base_x, y |-> calls.base_y],
                                calls.orientation,
                                IF calls.which = 1 THEN calls.preferred
                                ELSE -calls.preferred,
                                calls.offset)} :
          calls' =
            IF ~HasSpacingConflict(c.x, c.y)
            THEN [calls EXCEPT !.pc = "commit", !.x = c.x, !.y = c.y,
                               !.local_tests = calls.local_tests + 1]
            ELSE IF calls.offset < MaxLocalOffset
            THEN [calls EXCEPT !.offset = calls.offset + 1,
                               !.local_tests = calls.local_tests + 1]
            ELSE IF calls.which = 1
            THEN [calls EXCEPT !.which = 2,
                               !.offset = StartOffset(calls.anchor_station),
                               !.local_tests = calls.local_tests + 1]
            ELSE [calls EXCEPT !.pc = "diagonal", !.delta = 1,
                               !.local_tests = calls.local_tests + 1]
    /\ UNCHANGED <<map, station_lookup, line_lookup, available_maps,
                   client_tool_call, last, added>>

\* one iteration of `for delta in range(1, 20)` (lines 293-297), and the
\* raise of line 299 after the last one
TryDiagonal ==
    /\ calls.pc = "diagonal"
    /\ \E c \in {[x |-> MapBounds.max_x + calls.delta * GRID_X_SPACING,
                  y |-> MapBounds.max_y + calls.delta * GRID_Y_SPACING]} :
          IF ~HasSpacingConflict(c.x, c.y)
          THEN /\ calls' = [calls EXCEPT
                              !.pc = "commit", !.x = c.x, !.y = c.y,
                              !.diagonal_tests = calls.diagonal_tests + 1]
               /\ UNCHANGED last
          ELSE IF calls.delta < MaxDiagonal
          THEN /\ calls' = [calls EXCEPT
                              !.delta = calls.delta + 1,
                              !.diagonal_tests = calls.diagonal_tests + 1]
               /\ UNCHANGED last
          ELSE /\ calls' = [calls EXCEPT
                              !.pc = "idle",
                              !.diagonal_tests = calls.diagonal_tests + 1]
               /\ last' = LoopOutcome("ValueError", "unable_to_place", 0, 0)
    /\ UNCHANGED <<map, station_lookup, line_lookup, available_maps,
                   client_tool_call, added>>

\* lines 169-181
CommitCall ==
    /\ calls.pc = "commit"
    /\ LET line == map.lines[calls.line]
           station == NewStation(calls.station_id, calls.station_name,
                                 calls.x, calls.y, line)
       IN  /\ map' = [map EXCEPT
                        !.stations = Append(map.stations, station),
                        !.lines[calls.line] =
                            SpliceLine(line, calls.insertion_index, station.id)]
           /\ station_lookup' = DictSet(station_lookup, station.id, Len(map.stations) + 1)
           /\ last' = LoopOutcome("ok", "none", Len(map.stations) + 1, calls.line)
    /\ calls' = [calls EXCEPT !.pc = "idle"]
    /\ added' = added + 1
    /\ UNCHANGED <<line_lookup, available_maps, client_tool_call>>

\* the steps of a call in flight
StepLoops == ProbeId \/ Orient \/ TryOffset \/ TryDiagonal \/ CommitCall

NextLoops ==
    \/ \E line_id \in LoopLineIdArgs, station_name \in LoopStationNameArgs,
          after_station_id \in LoopAfterStationArgs :
            EnterCall(line_id, station_name, after_station_id)
    \/ ProbeId
    \/ Orient
    \/ TryOffset
    \/ TryDiagonal
    \/ CommitCall

\* a call that has been entered keeps running: the interpreter executes the
\* next statement of a thread that is not blocked
SpecLoops == InitLoops /\ [][NextLoops]_vars /\ WF_vars(StepLoops)

\* ------------------------------------------------- data-model predicates
StationIds(m) == {m.stations[i].id : i \in 1..Len(m.stations)}

\* invariant 2 of the data model
NoSharedCell(m) ==
    \A i, j \in 1..Len(m.stations) :
        i # j => <<m.stations[i].x, m.stations[i].y>>
                    # <<m.stations[j].x, m.stations[j].y>>

UniqueStationIds(m) ==
    \A i, j \in 1..Len(m.stations) : i # j => m.stations[i].id # m.stations[j].id

UniqueLineIds(m) ==
    \A i, j \in 1..Len(m.lines) : i # j => m.lines[i].id # m.lines[j].id

\* invariant 1 of the data model
ReferentialIntegrity(m) ==
    \A i \in 1..Len(m.lines) : Range(m.lines[i].stations) \subseteq StationIds(m)

NoRepeatedStation(line) ==
    \A i, j \in 1..Len(line.stations) :
        i # j => line.stations[i] # line.stations[j]

LinesContaining(m, station_id) ==
    {m.lines[i].id : i \in {k \in 1..Len(m.lines) :
                               station_id \in Range(m.lines[k].stations)}}

\* invariant 3 of the data model
BackReferencesConsistent(m) ==
    \A i \in 1..Len(m.stations) :
        Range(m.stations[i].lines) = LinesContaining(m, m.stations[i].id)

\* lowercase alphanumerics and hyphens only
IsSlug(id) == \A i \in 1..Len(id) : id[i] \in SlugChars \cup {"-"}

\* the step is a call of add_station / a successful call of add_station
AddStationStep == last'.op = "add_station"
AddStationReturned == last'.op = "add_station" /\ last'.status = "ok"

\* ------------------------------------------------------------------ claims
s_central_2 == <<"c","e","n","t","r","a","l","-","2">>

\* C1: in every state reached by loading a map and calling add_station any
\* number of times, with any arguments and whether the calls return or
\* raise, no two distinct stations of the map have the same (x, y).
C1_NoSharedCell == NoSharedCell(map)

\* C1 witness: add_station returned a station placed two cells from its
\* anchor Central, the cell next to Central being taken.
C1_Witness ==
    /\ last.op = "add_station" /\ last.status = "ok"
    /\ last.after_station_id = s_central
    /\ s_central \in DOMAIN station_lookup
    /\ Abs(map.stations[last.station].x - map.stations[station_lookup[s_central]].x)
         + Abs(map.stations[last.station].y - map.stations[station_lookup[s_central]].y)
       = 2

\* C2: a call of add_station on a map whose station ids are pairwise
\* distinct and whose line ids are pairwise distinct leaves both pairwise
\* distinct, and the id of every station or line the call creates consists
\* of lowercase alphanumerics and hyphens only.
C2_IdsStayUniqueAndSlugSafe ==
    [][AddStationStep =>
        /\ (UniqueStationIds(map) /\ UniqueLineIds(map)
              => UniqueStationIds(map') /\ UniqueLineIds(map'))
        /\ \A i \in (Len(map.stations) + 1)..Len(map'.stations) :
              IsSlug(map'.stations[i].id)
        /\ \A i \in (Len(map.lines) + 1)..Len(map'.lines) :
              IsSlug(map'.lines[i].id)]_vars

\* C2 witness: the map has unique ids, a station named Central received the
\* id central-2 and the call that made it created a line.
C2_Witness ==
    /\ last.op = "add_station" /\ last.status = "ok"
    /\ UniqueStationIds(map) /\ UniqueLineIds(map)
    /\ map.stations[last.station].id = s_central_2
    /\ map.lines[last.line].stations = <<s_central_2>>

C4_BackReferencesPreserved ==
    [][AddStationStep /\ BackReferencesConsistent(map)
          => BackReferencesConsistent(map')]_vars

\* C4 amended: a call of add_station on a map that has consistent
\* back-references and in which every station id listed by a line is the id
\* of a station leaves the back-references consistent.
C4_BackReferencesPreservedGivenIntegrity ==
    [][AddStationStep /\ BackReferencesConsistent(map) /\ ReferentialIntegrity(map)
          => BackReferencesConsistent(map')]_vars

\* C4 witness: add_station created a station on a map with consistent
\* back-references, referential integrity and an interchange.
C4_Witness ==
    /\ last.op = "add_station" /\ last.status = "ok"
    /\ BackReferencesConsistent(map) /\ ReferentialIntegrity(map)
    /\ \E i \in 1..Len(map.stations) : Len(map.stations[i].lines) = 2
    /\ map.stations[last.station].lines = <<map.lines[last.line].id>>

\* C5: a call of add_station that raises leaves the station list, the line
\* list with every line's stations, and both lookup indexes as they were.
C5_RaiseLeavesStateUnchanged ==
    [][AddStationStep /\ last'.status # "ok" =>
        /\ map' = map
        /\ station_lookup' = station_lookup
        /\ line_lookup' = line_lookup]_vars

\* C5 witness: add_station raised after an earlier call had added a station,
\* on an after_station_id that is indexed but not on the target line.
C5_Witness ==
    /\ last.op = "add_station" /\ last.status = "ValueError"
    /\ last.error = "not_in_list"
    /\ added >= 1

\* the stations list of the line a call with this line_id resolves to in the
\* current state; a line the call would create has no stations
TargetStations(line_id) ==
    IF ResolveLine(line_id) = 0 THEN << >>
    ELSE map.lines[ResolveLine(line_id)].stations

\* the stations list, before the step, of the line the call returned
OldTargetStations ==
    IF last'.line <= Len(map.lines) THEN map.lines[last'.line].stations ELSE << >>

\* C6: a call of add_station with an after_station_id that is not in the
\* stations list of the line it resolves to (a line without stations and a
\* line the call would create included) raises ValueError and leaves the
\* number of stations and the number of lines unchanged.
C6_UnknownAfterStationRaises ==
    [][AddStationStep /\ last'.after_station_id # None
         /\ last'.after_station_id \notin Range(TargetStations(last'.line_id))
       => /\ last'.status = "ValueError"
          /\ Len(map'.stations) = Len(map.stations)
          /\ Len(map'.lines) = Len(map.lines)]_vars

\* C7: a call of add_station that returns has put the new station id into
\* the target line's list right after an occurrence of after_station_id
\* when that is given and on the line, and at the end of the list otherwise,
\* leaving the other ids in their order.
C7_SplicedAfterAnchorOrAtEnd ==
    [][AddStationReturned =>
        LET old == OldTargetStations
            new == map'.lines[last'.line].stations
            sid == map'.stations[last'.station].id
            after == last'.after_station_id
        IN  IF after # None /\ after \in Range(old)
            THEN \E p \in 1..Len(old) :
                    old[p] = after /\ new = ListInsert(old, p, sid)
            ELSE new = Append(old, sid)]_vars

\* C8: a call of add_station leaves every station that existed as it was,
\* leaves id, name and color of every line that existed as they were, leaves
\* the stations list of every line but the target line as it was, appends at
\* most one line, and when it returns it has appended exactly one station
\* and put exactly one id into the target line's list.
C8_NoReflow ==
    [][AddStationStep =>
        /\ Len(map'.stations) >= Len(map.stations)
        /\ \A i \in 1..Len(map.stations) : map'.stations[i] = map.stations[i]
        /\ Len(map'.lines) \in {Len(map.lines), Len(map.lines) + 1}
        /\ \A i \in 1..Len(map.lines) :
              /\ map'.lines[i].id = map.lines[i].id
              /\ map'.lines[i].name = map.lines[i].name
              /\ map'.lines[i].color = map.lines[i].color
              /\ i # last'.line => map'.lines[i].stations = map.lines[i].stations
        /\ last'.status = "ok" =>
              /\ Len(map'.stations) = Len(map.stations) + 1
              /\ \E p \in 0..Len(OldTargetStations) :
                    map'.lines[last'.line].stations =
                        ListInsert(OldTargetStations, p,
                                   map'.stations[last'.station].id)]_vars

\* C8 witness: add_station returned after splicing a station into the
\* middle of a line of a map with three lines, one of them renamed.
C8_Witness ==
    /\ last.op = "add_station" /\ last.status = "ok"
    /\ Len(map.lines) >= 2
    /\ \E i \in 1..Len(map.lines) :
          map.lines[i].name # Title(map.lines[i].id) \o s_Line_suffix
    /\ last.after_station_id # None
    /\ map.lines[last.line].stations[Len(map.lines[last.line].stations)]
         # map.stations[last.station].id

\* C9 as stated: a map that update_map made the active map has referential
\* integrity, consistent back-references, unique station ids and unique
\* line ids (a document without them is rejected).
C9_AllInvariantsCheckedOnLoad ==
    last.op = "update_map" /\ last.status = "ok" =>
        /\ ReferentialIntegrity(map)
        /\ BackReferencesConsistent(map)
        /\ UniqueStationIds(map)
        /\ UniqueLineIds(map)

\* C9 amended: of the data-model invariants only the shared cell is checked
\* on load: update_map of a document that passes the schema returns and
\* makes it the active map exactly when no two of its stations share a cell,
\* and raises ValueError otherwise, whatever its references and ids are.
C9_OnlySharedCellCheckedOnLoad ==
    last.op = "update_map" /\ ~SchemaRaises(Docs[last.doc]) =>
        /\ last.status = "ok" <=> NoSharedCell(ModelValidate(Docs[last.doc]))
        /\ last.status = "ok" => map = ModelValidate(Docs[last.doc])
        /\ last.status # "ok" => last.status = "ValueError"

\* C9 witness: update_map returned for a document in which a line lists a
\* station id that no station has.
C9_Witness ==
    /\ last.op = "update_map" /\ last.status = "ok"
    /\ ~ReferentialIntegrity(map)

\* two stations of a map that are too close under the spacing rule of
\* _has_spacing_conflict
TooCloseInMap(m) ==
    \E i, j \in 1..Len(m.stations) :
        i # j /\ TooClose(m.stations[i], m.stations[j].x, m.stations[j].y)

\* C10: update_map of a map (a document that passes the schema) raises the
\* spacing ValueError, with the active map and the indexes left as they
\* were, when two of its stations are too close under the spacing rule (same
\* cell, same row less than a grid unit apart, same column less than a grid
\* unit apart), and returns with the map active when no two are.
C10_SpacingCheckedBeforeActivation ==
    [][last'.op = "update_map" /\ ~SchemaRaises(Docs[last'.doc]) =>
        IF TooCloseInMap(ModelValidate(Docs[last'.doc]))
        THEN /\ last'.status = "ValueError" /\ last'.error = "spacing_conflict"
             /\ UNCHANGED <<map, station_lookup, line_lookup>>
        ELSE /\ last'.status = "ok"
             /\ map' = ModelValidate(Docs[last'.doc])]_vars

\* C10 witness: update_map raised the spacing error on a store whose active
\* map had been extended by add_station.
C10_Witness ==
    /\ last.op = "update_map" /\ last.error = "spacing_conflict"
    /\ added >= 1

\* ------------------------------------------------------------- C11 .. C20
\* the maps of a "maps" list that are objects with a non-empty id
ListedMaps(maps) ==
    LET keep == {i \in 1..Len(maps) : maps[i].isDict /\ maps[i].value.id # None}
        nth[k \in 0..Len(maps)] ==
            IF k = 0 THEN << >>
            ELSE IF k \in keep THEN Append(nth[k - 1], maps[k].value)
            ELSE nth[k - 1]
    IN  nth[Len(maps)]

\* the store was constructed: __post_init__ returned
Constructed == last.op = "__post_init__" /\ last.status = "ok"
ConstructionFailed == last.op = "__post_init__" /\ last.status # "ok"

\* C11 as stated: with a catalog, construction fails when the maps list is
\* empty, a constructed store has as its active map a map of the list whose
\* id equals defaultMapId if there is one and the first map of the list
\* otherwise, and it is constructed when that map is valid; a document
\* without a maps key is the active map.
C11_DefaultOrFirstOfList ==
    last.op = "__post_init__" =>
        IF last.doc.hasMaps
        THEN LET maps == last.doc.maps
                 matches == {i \in 1..Len(maps) :
                               /\ last.doc.defaultMapId # None
                               /\ maps[i].value.id = last.doc.defaultMapId}
                 claimed == IF matches # {} THEN {maps[i].value : i \in matches}
                            ELSE {maps[1].value}
             IN  IF maps = << >> THEN ConstructionFailed
                 ELSE /\ Constructed => \E m \in claimed : map = ModelValidate(m)
                      /\ (\A m \in claimed : ~update_map(m).raised) => Constructed
        ELSE Constructed => map = ModelValidate(last.doc.document)

\* C11 amended: with a catalog, the entries that are not objects or have no
\* non-empty id are skipped; construction fails with ValueError when no
\* entry is left; otherwise the chosen id is defaultMapId if a remaining
\* entry has it and the id of the first remaining entry if not, the chosen
\* map is the last remaining entry with the chosen id, and the store is
\* constructed with it as the active map exactly when update_map accepts
\* it.  A document without a maps key is the active map exactly when
\* update_map accepts it.
C11_DefaultOrFirstWithId ==
    last.op = "__post_init__" =>
        LET listed == ListedMaps(last.doc.maps)
            ids == {listed[i].id : i \in 1..Len(listed)}
            chosen_id == IF last.doc.defaultMapId \in ids
                         THEN last.doc.defaultMapId ELSE listed[1].id
            chosen == IF last.doc.hasMaps
                      THEN listed[Max({i \in 1..Len(listed) : listed[i].id = chosen_id})]
                      ELSE last.doc.document
        IN  IF last.doc.hasMaps /\ listed = << >>
            THEN last.status = "ValueError" /\ last.error = "no_maps"
            ELSE /\ Constructed <=> ~update_map(chosen).raised
                 /\ Constructed =>
                       /\ map = ModelValidate(chosen)
                       /\ station_lookup = DictById(map.stations)
                       /\ line_lookup = DictById(map.lines)

\* C11 witness: a store was constructed from a catalog whose first entry has
\* no id and whose default id names the last of three entries.
C11_Witness ==
    /\ Constructed
    /\ last.doc.hasMaps /\ Len(last.doc.maps) = 3
    /\ last.doc.maps[1].value.id = None
    /\ last.doc.maps[3].value.id = last.doc.defaultMapId
    /\ last.doc.maps[2].value.id # last.doc.defaultMapId
    /\ map = ModelValidate(last.doc.maps[3].value)

\* the first n characters of s are p
HasPrefix(s, p) == Len(s) >= Len(p) /\ SubSeq(s, 1, Len(p)) = p

\* C12: the id of the station a call of add_station creates is the slug of
\* its name when no station has that id, and otherwise slug-k for the
\* smallest k >= 2 such that no station has the id slug-k; and when the last
\* three calls added stations named Central to a map in which no station id
\* starts with central, their ids are central, central-2, central-3 in order.
C12_FirstFitStationId ==
    [][AddStationReturned =>
        LET ids == StationIds(map)
            slug == NormalizeId(last'.station_name, s_station)
            taken(k) == slug \o <<"-">> \o Str(k) \in ids
            n == Len(map'.stations)
        IN  /\ map'.stations[last'.station].id =
                  IF slug \notin ids THEN slug
                  ELSE slug \o <<"-">> \o
                         Str(Min({k \in 2..(Len(map.stations) + 2) : ~taken(k)}))
            /\ (added' >= 3
                  /\ (\A i \in (n - 2)..n : map'.stations[i].name = n_Central)
                  /\ (\A j \in 1..(n - 3) :
                         ~HasPrefix(map'.stations[j].id, s_central)))
               => (map'.stations[n - 2].id = s_central
                     /\ map'.stations[n - 1].id = s_central_2
                     /\ map'.stations[n].id = s_central_3)]_vars

\* C12 witness: three calls named Central on the empty map made the stations
\* central, central-2 and central-3.
C12_Witness ==
    /\ last.op = "add_station" /\ last.status = "ok" /\ added = 3
    /\ Len(map.stations) = 3
    /\ \A i \in 1..3 : map.stations[i].name = n_Central
    /\ map.stations[3].id = s_central_3

\* the step is a call of add_station that created a line
LineCreated == AddStationStep /\ Len(map'.lines) = Len(map.lines) + 1

\* palette color c is the color of a line of m, letter case ignored
ColorInUse(m, c) == \E i \in 1..Len(m.lines) : Lower(m.lines[i].color) = Lower(c)

\* C13: a line created by add_station has the requested color when one is
\* requested; when none is requested and some palette color is not in use
\* by a line of the map (letter case ignored), it has the first palette
\* color not in use, so a color no line of the map had.
C13_FirstUnusedOrRequestedColor ==
    [][LineCreated =>
        LET color == map'.lines[Len(map'.lines)].color
        IN  IF last'.line_color # None THEN color = last'.line_color
            ELSE (\E i \in 1..Len(SOLARIZED_COLORS) : ~ColorInUse(map, SOLARIZED_COLORS[i]))
                 => /\ \E i \in 1..Len(SOLARIZED_COLORS) :
                          /\ color = SOLARIZED_COLORS[i]
                          /\ ~ColorInUse(map, SOLARIZED_COLORS[i])
                          /\ \A j \in 1..(i - 1) : ColorInUse(map, SOLARIZED_COLORS[j])
                    /\ ~ColorInUse(map, color)]_vars

\* C13 witness: a line created without a requested color received the second
\* palette color, the first being in use in upper case.
C13_Witness ==
    /\ last.op = "add_station" /\ last.status = "ok" /\ last.line_color = None
    /\ last.line = Len(map.lines) /\ map.lines[last.line].stations = <<map.stations[last.station].id>>
    /\ map.lines[last.line].color = SOLARIZED_COLORS[2]
    /\ \E i \in 1..(Len(map.lines) - 1) : map.lines[i].color = c_upper_first

\* C14: a call of add_station that has to create a line creates it, also
\* when every palette color is in use; then, with no color requested, the
\* line gets the palette entry at index (number of lines before) mod 8; and
\* 9 lines created on a map without lines, none with a requested color, have
\* the 8 palette colors in palette order followed by the first palette color.
C14_PaletteCycles ==
    [][AddStationStep /\ ResolveLine(last'.line_id) = 0 =>
        /\ last'.status = "ok"
        /\ Len(map'.lines) = Len(map.lines) + 1
        /\ (last'.line_color = None
               /\ \A i \in 1..Len(SOLARIZED_COLORS) : ColorInUse(map, SOLARIZED_COLORS[i]))
            => map'.lines[Len(map'.lines)].color =
                  SOLARIZED_COLORS[(Len(map.lines) % 8) + 1]
        /\ (Len(map'.lines) = 9 /\ added' = 9
               /\ \A i \in 1..9 : map'.lines[i].color # c_upper_first)
            => \A i \in 1..9 :
                  map'.lines[i].color = SOLARIZED_COLORS[IF i = 9 THEN 1 ELSE i]]_vars

\* C14 witness: the tenth line of a map, created with every palette color in
\* use and no color requested, has the second palette color.
C14_Witness ==
    /\ last.op = "add_station" /\ last.status = "ok" /\ last.line_color = None
    /\ Len(map.lines) = 10 /\ last.line = 10
    /\ \A i \in 1..Len(SOLARIZED_COLORS) :
          \E j \in 1..9 : Lower(map.lines[j].color) = Lower(SOLARIZED_COLORS[i])
    /\ map.lines[10].color = SOLARIZED_COLORS[2]

\* the lines of the map before the step that the three strategies of a call
\* with the line_id of the step look at
LinesWithId(id) == {i \in 1..Len(map.lines) : map.lines[i].id = id}
LinesNamedLike(line_id) ==
    {i \in 1..Len(map.lines) : Lower(map.lines[i].name) = Lower(line_id)}
LinesWithNameSlug(line_id) ==
    {i \in 1..Len(map.lines) :
        NormalizeId(map.lines[i].name, s_id) = NormalizeId(line_id, s_line)}

\* the step of a returned call targets a line of the set by_id or by_slug or
\* the first line of by_name, whichever is the first not empty, and adds no
\* line; when all are empty it targets a line it created and appended, whose
\* id is the slug of line_id
ResolvedInOrder(by_id, by_slug, by_name) ==
    IF by_id # {} THEN last'.line \in by_id /\ Len(map'.lines) = Len(map.lines)
    ELSE IF by_slug # {} THEN last'.line \in by_slug /\ Len(map'.lines) = Len(map.lines)
    ELSE IF by_name # {} THEN last'.line = Min(by_name) /\ Len(map'.lines) = Len(map.lines)
    ELSE /\ Len(map'.lines) = Len(map.lines) + 1
         /\ last'.line = Len(map'.lines)
         /\ map'.lines[last'.line].id = NormalizeId(last'.line_id, s_line)
         /\ SubSeq(map'.lines, 1, Len(map.lines)) = map.lines

\* C15 as stated: the target of a returned call is a line whose id is
\* line_id, else a line whose id is the slug of line_id, else the first line
\* whose name equals line_id with letter case ignored, and a line is created
\* and appended exactly when there is none of the three.
C15_ResolvedByIdSlugOrName ==
    [][AddStationReturned =>
        ResolvedInOrder(LinesWithId(last'.line_id),
                        LinesWithId(NormalizeId(last'.line_id, s_line)),
                        LinesNamedLike(last'.line_id))]_vars

\* C15 amended: the third strategy takes the first line whose name has the
\* slug of line_id, the slug of a name being taken with the fallback "id"
\* and the slug of line_id with the fallback "line".
C15_ResolvedByIdSlugOrNameSlug ==
    [][AddStationReturned =>
        ResolvedInOrder(LinesWithId(last'.line_id),
                        LinesWithId(NormalizeId(last'.line_id, s_line)),
                        LinesWithNameSlug(last'.line_id))]_vars

\* C15 witness: a call with line_id "red line" was resolved by the name of
\* the line red, no line having the id red-line.
C15_Witness ==
    /\ last.op = "add_station" /\ last.status = "ok"
    /\ last.line_id = n_red_line_lower
    /\ map.lines[last.line].id = s_red
    /\ \A i \in 1..Len(map.lines) : map.lines[i].id # s_red_line

\* C16 (Scenario A): add_station(line_id="red", station_name="Central") on a
\* map without stations and lines returns, leaves exactly the line red, named
\* "Red Line", with the first palette color and the stations list [central],
\* and exactly the station central, named Central, at (0, 0) with the lines
\* list [red], and returns that station and that line.
C16_ScenarioA ==
    [][(/\ AddStationStep
        /\ map.stations = << >> /\ map.lines = << >>
        /\ last'.line_id = s_red /\ last'.station_name = n_Central
        /\ last'.line_name = None /\ last'.line_color = None
        /\ last'.after_station_id = None)
       => /\ last'.status = "ok"
          /\ map'.lines = <<MkLine(s_red, n_Red_Line, SOLARIZED_COLORS[1], <<s_central>>)>>
          /\ map'.stations = <<[id |-> s_central, name |-> n_Central,
                                x |-> 0, y |-> 0, lines |-> <<s_red>>]>>
          /\ last'.station = 1 /\ last'.line = 1
          /\ station_lookup' = DictById(map'.stations)
          /\ line_lookup' = DictById(map'.lines)]_vars

\* C16 witness: the call of Scenario A returned on the empty map.
C16_Witness ==
    /\ last.op = "add_station" /\ last.status = "ok" /\ added = 1
    /\ last.line_id = s_red /\ last.station_name = n_Central
    /\ last.line_name = None /\ last.line_color = None
    /\ last.after_station_id = None
    /\ Len(map.stations) = 1 /\ Len(map.lines) = 1
    /\ map.stations[1].x = 0 /\ map.stations[1].y = 0

\* C17: while the station ids of the map are pairwise distinct and its line
\* ids are pairwise distinct, the station index has exactly the ids of the
\* stations and maps each id to the station with that id, the line index
\* likewise; and right after add_station returned, find_station finds the
\* created station, find_line the returned line, and stations_for_line gives
\* the stations of the ids of that line in its order, the created station
\* among them.
C17_IndexesNeverStale ==
    UniqueStationIds(map) /\ UniqueLineIds(map) =>
        /\ DOMAIN station_lookup = StationIds(map)
        /\ \A id \in DOMAIN station_lookup : map.stations[station_lookup[id]].id = id
        /\ DOMAIN line_lookup = {map.lines[i].id : i \in 1..Len(map.lines)}
        /\ \A id \in DOMAIN line_lookup : map.lines[line_lookup[id]].id = id
        /\ (last.op = "add_station" /\ last.status = "ok") =>
              LET line == map.lines[last.line]
                  found == stations_for_line(line.id)
              IN  /\ find_station(map.stations[last.station].id) = last.station
                  /\ find_line(line.id) = last.line
                  /\ [k \in 1..Len(found) |-> map.stations[found[k]].id]
                       = SelectSeq(line.stations, LAMBDA id : id \in StationIds(map))
                  /\ \E k \in 1..Len(found) : found[k] = last.station

\* C17 witness: add_station returned after creating a fourth line on a map
\* with unique ids and adding a second station, and both the line and the
\* station are indexed.
C17_Witness ==
    /\ last.op = "add_station" /\ last.status = "ok" /\ added = 2
    /\ UniqueStationIds(map) /\ UniqueLineIds(map)
    /\ Len(map.lines) = 4 /\ last.line = 4
    /\ find_line(map.lines[4].id) = 4
    /\ find_station(map.stations[last.station].id) = Len(map.stations)

\* C18: with two threads in add_station on one store, a map in which two
\* stations share an id or share a cell is reached only when calls of the
\* two threads have been in flight together; calls that run one after the
\* other leave the ids distinct and no cell shared.
C18_SharedIdOrCellOnlyWhenInterleaved ==
    (~UniqueStationIds(map) \/ ~NoSharedCell(map))
        => \E t \in Threads : calls[t].overlapped

\* C18 witness: two calls were in flight together, each computed its id and
\* its coordinates before the other committed, and the map has two stations
\* with one id in one cell.
C18_Witness ==
    /\ \A t \in Threads : calls[t].overlapped /\ calls[t].pc = "idle"
    /\ \E i, j \in 1..Len(map.stations) :
          /\ i # j
          /\ map.stations[i].id = map.stations[j].id
          /\ map.stations[i].x = map.stations[j].x
          /\ map.stations[i].y = map.stations[j].y

\* C19: a call of the agent's tool add_station with the id of a line of
\* the map returns, has added one station whose id is the last of the
\* line's list when append is true and the first when append is false, the
\* rest of the list unchanged, and has set the client tool call update_map
\* carrying the map.
C19_AgentToolAddsStation ==
    [][(last'.op = "agent_add_station" /\ last'.line_id \in DOMAIN line_lookup) =>
        /\ last'.status = "ok"
        /\ Len(map'.stations) = Len(map.stations) + 1
        /\ LET old == map.lines[line_lookup[last'.line_id]].stations
               new == map'.lines[line_lookup[last'.line_id]].stations
               sid == map'.stations[Len(map'.stations)].id
           IN  new = IF last'.append THEN Append(old, sid) ELSE <<sid>> \o old
        /\ client_tool_call' # None]_vars

\* C20: a call of add_station that fails raises ValueError, and when its
\* after_station_id is not in the stations list of the line it resolves to,
\* the error is the reference error "Station ... is not on the <line name>",
\* also when after_station_id is the id of a station of another line.
C20_FailuresAreReferenceErrors ==
    [][(AddStationStep /\ last'.status # "ok") =>
        /\ last'.status = "ValueError"
        /\ (last'.after_station_id # None
               /\ last'.after_station_id \notin Range(TargetStations(last'.line_id)))
            => last'.error = "not_on_line"]_vars

\* ------------------------------------------------------------- C21 .. C30
\* the station a call finds under an id before the step
StationById(id) == map.stations[station_lookup[id]]

\* the axis and the direction of the segment from one cell to another:
\* horizontal when |dx| >= |dy|, +1 when the delta on that axis is >= 0
SegmentOrientation(first, second) ==
    LET dx == second.x - first.x
        dy == second.y - first.y
    IN  IF Abs(dx) >= Abs(dy)
        THEN [orientation |-> "horizontal", direction |-> IF dx >= 0 THEN 1 ELSE -1]
        ELSE [orientation |-> "vertical", direction |-> IF dy >= 0 THEN 1 ELSE -1]

\* what a returned call inferred, without the KeyError flag
Inferred(stations, insertion_index) ==
    LET o == InferOrientation([stations |-> stations], insertion_index)
    IN  [orientation |-> o.orientation, direction |-> o.direction]

\* the index, counted from 0, at which the step put the new station id into
\* the target line's list
InsertionIndex ==
    IndexOf(map'.lines[last'.line].stations, map'.stations[last'.station].id) - 1

\* C21 as stated: a call of add_station that returns, on a line of n >= 2
\* stations with insertion index i, has inferred the axis and the direction
\* of the segment between the stations at positions i-1 and i of the line
\* (positions n-2 and n-1 when i = n), and (horizontal, +1) on a line of
\* fewer than 2 stations.
C21_StraddlingSegment ==
    [][AddStationReturned =>
        LET old == OldTargetStations
            n == Len(old)
            i == InsertionIndex
            hi == Min({Max({i, 1}), n - 1})
        IN  Inferred(old, i) =
                IF n >= 2
                THEN SegmentOrientation(StationById(old[hi]), StationById(old[hi + 1]))
                ELSE [orientation |-> "horizontal", direction |-> 1]]_vars

\* C21 amended: a call of add_station that returns, on a line of n >= 2
\* stations with insertion index i, has inferred the axis and the direction
\* of the segment that ends at the station before the insertion point, the
\* stations at positions i-2 and i-1 of the line (positions 0 and 1 when
\* i <= 1, the last segment when i = n), and (horizontal, +1) on a line of
\* fewer than 2 stations.
C21_SegmentBeforeInsertion ==
    [][AddStationReturned =>
        LET old == OldTargetStations
            n == Len(old)
            i == InsertionIndex
            hi == Max({i - 1, 1})
        IN  Inferred(old, i) =
                IF n >= 2
                THEN SegmentOrientation(StationById(old[hi]), StationById(old[hi + 1]))
                ELSE [orientation |-> "horizontal", direction |-> 1]]_vars

\* C21 witness: add_station returned after putting a station into the middle
\* of a line, at a corner: the segment that ends at the station before it
\* and the segment that starts there differ in axis or direction.
C21_Witness ==
    /\ last.op = "add_station" /\ last.status = "ok"
    /\ LET new == map.lines[last.line].stations
           p == IndexOf(new, map.stations[last.station].id)
       IN  /\ p >= 3 /\ p < Len(new)
           /\ {new[p - 2], new[p - 1], new[p + 1]} \subseteq DOMAIN station_lookup
           /\ SegmentOrientation(map.stations[station_lookup[new[p - 2]]],
                                 map.stations[station_lookup[new[p - 1]]])
                # SegmentOrientation(map.stations[station_lookup[new[p - 1]]],
                                     map.stations[station_lookup[new[p + 1]]])

\* the cell one grid unit from a station along an axis in a direction
NextCell(station, o) ==
    IF o.orientation = "horizontal"
    THEN [x |-> station.x + o.direction * GRID_X_SPACING, y |-> station.y]
    ELSE [x |-> station.x, y |-> station.y + o.direction * GRID_Y_SPACING]

\* the cell of the station the step created
NewCell == [x |-> map'.stations[last'.station].x, y |-> map'.stations[last'.station].y]

\* C22: a call of add_station that returns having put the new station at
\* the end of a line that had at least 2 stations has inferred the axis and
\* the direction of the line's last segment (horizontal iff |dx| >= |dy|, +1
\* iff the delta on that axis is >= 0), and when the cell one grid unit
\* beyond the last station on that axis in that direction had no spacing
\* conflict, the new station is in that cell.
C22_AppendContinuesLastSegment ==
    [][(/\ AddStationReturned
        /\ Len(OldTargetStations) >= 2
        /\ map'.lines[last'.line].stations
             = Append(OldTargetStations, map'.stations[last'.station].id))
       => LET old == OldTargetStations
              n == Len(old)
              o == SegmentOrientation(StationById(old[n - 1]), StationById(old[n]))
              beyond == NextCell(StationById(old[n]), o)
          IN  /\ Inferred(old, n) = o
              /\ ~HasSpacingConflict(beyond.x, beyond.y) => NewCell = beyond]_vars

\* C22 witness: a third station was appended to the line with stations at
\* (0, 0) and (1, 0), and it is at (2, 0).
C22_Witness ==
    /\ last.op = "add_station" /\ last.status = "ok"
    /\ Len(map.stations) = 3 /\ last.station = 3
    /\ map.lines[last.line].stations
         = <<map.stations[1].id, map.stations[2].id, map.stations[3].id>>
    /\ <<map.stations[1].x, map.stations[1].y>> = <<0, 0>>
    /\ <<map.stations[2].x, map.stations[2].y>> = <<1, 0>>
    /\ <<map.stations[3].x, map.stations[3].y>> = <<2, 0>>

\* the cell k grid units from a station along an axis; k is signed
CellAt(station, orientation, k) ==
    IF orientation = "horizontal"
    THEN [x |-> station.x + k * GRID_X_SPACING, y |-> station.y]
    ELSE [x |-> station.x, y |-> station.y + k * GRID_Y_SPACING]

\* the offsets 1..15 from a station along an axis, on the side of a sign,
\* whose cells have no spacing conflict
FreeOffsets(station, orientation, sign) ==
    {k \in 1..MaxLocalOffset :
        ~HasSpacingConflict(CellAt(station, orientation, sign * k).x,
                            CellAt(station, orientation, sign * k).y)}

\* the anchor of a returned call on a line that had stations: the station
\* found under the id that precedes the new id in the line's list
AnchorOfStep ==
    StationById(map'.lines[last'.line].stations[InsertionIndex])

\* C23: a call of add_station that returns on a line that had stations has
\* put the new station k grid units from the anchor along the inferred axis
\* in the inferred direction, for the smallest k in 1..15 whose cell had no
\* spacing conflict; when there was no such k, k units in the opposite
\* direction, for the smallest such k on that side; in both cases not in
\* the anchor's own cell, and with the anchor's coordinate on the other axis.
C23_LocalSearchOrder ==
    [][(AddStationReturned /\ OldTargetStations # << >>) =>
        \A o \in {Inferred(OldTargetStations, InsertionIndex)} :
        \A anchor \in {AnchorOfStep} :
        \A ahead \in {FreeOffsets(anchor, o.orientation, o.direction)} :
        \A behind \in {FreeOffsets(anchor, o.orientation, -o.direction)} :
            /\ ahead # {} =>
                NewCell = CellAt(anchor, o.orientation, o.direction * Min(ahead))
            /\ (ahead = {} /\ behind # {}) =>
                NewCell = CellAt(anchor, o.orientation, -o.direction * Min(behind))
            /\ (ahead # {} \/ behind # {}) =>
                /\ NewCell # [x |-> anchor.x, y |-> anchor.y]
                /\ IF o.orientation = "horizontal"
                   THEN NewCell.y = anchor.y ELSE NewCell.x = anchor.x]_vars

\* C23 witness: add_station returned a station in the row of its anchor,
\* three cells from it, all 15 cells on the other side of the anchor being
\* taken by other stations.
C23_Witness ==
    /\ last.op = "add_station" /\ last.status = "ok"
    /\ LET new == map.lines[last.line].stations
           p == IndexOf(new, map.stations[last.station].id)
       IN  /\ p >= 2
           /\ new[p - 1] \in DOMAIN station_lookup
           /\ LET anchor == map.stations[station_lookup[new[p - 1]]]
                  station == map.stations[last.station]
              IN  /\ station.y = anchor.y
                  /\ station.x = anchor.x - 3
                  /\ \A k \in 1..MaxLocalOffset :
                        \E j \in 1..Len(map.stations) :
                            /\ map.stations[j].x = anchor.x + k
                            /\ map.stations[j].y = anchor.y

\* a station of the map is in the cell
Occupied(m, cell) ==
    \E j \in 1..Len(m.stations) :
        m.stations[j].x = cell.x /\ m.stations[j].y = cell.y

\* C24: a call of add_station that returns, on a line that had stations,
\* when all 15 offsets on both sides of the anchor along the inferred axis
\* had a spacing conflict, has put the new station at (max_x + k, max_y + k)
\* for a k in 1..19, max_x and max_y being the largest x and y of the
\* stations before the call: right of and above every station, in no
\* station's cell and in spacing conflict with none.
C24_FallbackOutsideBounds ==
    [][(AddStationReturned /\ OldTargetStations # << >>) =>
        \A o \in {Inferred(OldTargetStations, InsertionIndex)} :
        \A anchor \in {AnchorOfStep} :
            (/\ FreeOffsets(anchor, o.orientation, o.direction) = {}
             /\ FreeOffsets(anchor, o.orientation, -o.direction) = {})
            => \A cell \in {NewCell} :
                /\ \E k \in 1..MaxDiagonal :
                      cell = [x |-> MapBounds.max_x + k, y |-> MapBounds.max_y + k]
                /\ \A j \in 1..Len(map.stations) :
                      map.stations[j].x < cell.x /\ map.stations[j].y < cell.y
                /\ ~Occupied(map, cell)
                /\ ~HasSpacingConflict(cell.x, cell.y)]_vars

\* C24 witness: on the row of 31 stations from x = -15 to x = 15, with two
\* more stations at (20, 7) and (-20, -7), add_station after the station at
\* x = 0 returned a station at (21, 8).
C24_Witness ==
    /\ last.op = "add_station" /\ last.status = "ok" /\ added = 1
    /\ last.after_station_id = PathStationId(16)
    /\ Len(map.stations) = 34
    /\ \A k \in 1..31 : map.stations[k].x = k - 16 /\ map.stations[k].y = 0
    /\ map.stations[last.station].x = 21 /\ map.stations[last.station].y = 8

\* C27: in every state reached by loading a map and calling add_station, no
\* call of add_station has raised the "unable to place station" error, and
\* the first diagonal candidate (max_x + 1, max_y + 1) has no spacing
\* conflict.
C27_PlacementNeverExhausted ==
    /\ last.error # "unable_to_place"
    /\ ~HasSpacingConflict(MapBounds.max_x + 1, MapBounds.max_y + 1)

\* C27 witness: two calls of add_station after the station in the middle of
\* a column of 31 stations returned, the local search having failed both
\* times: the stations are at (1, 16) and (2, 17).
C27_Witness ==
    /\ last.op = "add_station" /\ last.status = "ok" /\ added = 2
    /\ Len(map.stations) = 33
    /\ \A k \in 1..31 : map.stations[k].x = 0 /\ map.stations[k].y = k - 16
    /\ <<map.stations[32].x, map.stations[32].y>> = <<1, 16>>
    /\ <<map.stations[33].x, map.stations[33].y>> = <<2, 17>>

\* the cell one grid unit right of the rightmost station of a map, in the
\* row of its smallest y; (0, 0) for a map without stations
RightOfMapInTopRow(m) ==
    IF m.stations = << >> THEN [x |-> 0, y |-> 0]
    ELSE [x |-> Max({m.stations[j].x : j \in 1..Len(m.stations)}) + 1,
          y |-> Min({m.stations[j].y : j \in 1..Len(m.stations)})]

\* C25: a call of add_station whose target line has no stations (a line the
\* call creates, or a line of the map with an empty list) returns and has
\* put the new station at (max x + 1, min y) over the stations of the map,
\* at (0, 0) when the map had no station; that cell had no spacing conflict.
C25_PlacedRightOfMap ==
    [][(AddStationStep /\ TargetStations(last'.line_id) = << >>) =>
        /\ last'.status = "ok"
        /\ NewCell = RightOfMapInTopRow(map)
        /\ ~HasSpacingConflict(RightOfMapInTopRow(map).x, RightOfMapInTopRow(map).y)]_vars

\* C25 witness: add_station created a line on a map whose stations span
\* several rows, below and above row 0, and the first station of the line
\* is right of every other station in the row of the smallest y.
C25_Witness ==
    /\ last.op = "add_station" /\ last.status = "ok"
    /\ last.line = Len(map.lines) /\ last.line > 2
    /\ map.lines[last.line].stations = <<map.stations[last.station].id>>
    /\ map.stations[last.station].y < 0
    /\ \A j \in 1..Len(map.stations) :
          j # last.station =>
              /\ map.stations[j].x < map.stations[last.station].x
              /\ map.stations[j].y >= map.stations[last.station].y
    /\ \E j \in 1..Len(map.stations) : map.stations[j].y > 0

\* the integer cells of the bounding box of the map and of the two rings
\* of cells around it
CellsAround ==
    {[x |-> x, y |-> y] : x \in (MapBounds.min_x - 2)..(MapBounds.max_x + 2),
                          y \in (MapBounds.min_y - 2)..(MapBounds.max_y + 2)}

\* the map with one more station, in the cell
WithStationAt(m, cell) ==
    [m EXCEPT !.stations =
        Append(m.stations, [id |-> s_station, name |-> s_station,
                            x |-> cell.x, y |-> cell.y, lines |-> << >>])]

\* C28: in every state reached by loading maps and calling add_station,
\* for every integer cell, _has_spacing_conflict is true of the cell exactly
\* when a station of the map is in the cell, and exactly when the map with
\* one more station in that cell would be rejected by the check of shared
\* cells that runs on load.
C28_ConflictIsOccupancy ==
    \A cell \in CellsAround :
        /\ HasSpacingConflict(cell.x, cell.y) <=> Occupied(map, cell)
        /\ HasSpacingConflict(cell.x, cell.y)
             <=> ValidateSpacingRaises(WithStationAt(map, cell))

\* C28 witness: add_station returned a station next to another station of
\* its row; its cell is in conflict and the free cell on its other side,
\* one grid unit from it, is not.
C28_Witness ==
    /\ last.op = "add_station" /\ last.status = "ok"
    /\ LET station == map.stations[last.station]
       IN  /\ Occupied(map, [x |-> station.x - 1, y |-> station.y])
           /\ HasSpacingConflict(station.x, station.y)
           /\ ~Occupied(map, [x |-> station.x + 1, y |-> station.y])
           /\ ~HasSpacingConflict(station.x + 1, station.y)

\* C29: a call of add_station leaves the lines list of every station that
\* existed as it was, a station it creates has the lines list [id of the
\* target line], and interchanges() returns the same stations after the
\* call as before it.
C29_InterchangesUnchanged ==
    [][AddStationStep =>
        /\ \A i \in 1..Len(map.stations) :
              map'.stations[i].lines = map.stations[i].lines
        /\ \A i \in (Len(map.stations) + 1)..Len(map'.stations) :
              map'.stations[i].lines = <<map'.lines[last'.line].id>>
        /\ interchanges' = interchanges
        /\ [i \in interchanges' |-> map'.stations[i]]
             = [i \in interchanges |-> map.stations[i]]]_vars

\* C29 witness: add_station returned a station placed on a line that runs
\* through an interchange, on a map with exactly one interchange.
C29_Witness ==
    /\ last.op = "add_station" /\ last.status = "ok"
    /\ Cardinality(interchanges) = 1
    /\ \E i \in interchanges :
          map.stations[i].id \in Range(map.lines[last.line].stations)
    /\ last.station \notin interchanges

\* the ids the queries are asked for: every id of the active map, every id
\* of the documents, and an id that nothing has
QueriedIds ==
    DOMAIN station_lookup \cup DOMAIN line_lookup \cup {s_ghost}
        \cup UNION {StationIds(Docs[d]) : d \in 1..Len(Docs)}

\* C30: a call of update_map that raises, on a store with an active map,
\* raises the schema error or the spacing error and leaves the active map
\* and both indexes as they were; find_station, find_line,
\* stations_for_line and interchanges answer after it as before it.
C30_RejectedReplacementChangesNothing ==
    [][(last'.op = "update_map" /\ last'.status # "ok") =>
        /\ last'.error \in {"schema", "spacing_conflict"}
        /\ map' = map
        /\ station_lookup' = station_lookup
        /\ line_lookup' = line_lookup
        /\ \A id \in QueriedIds :
              /\ find_station(id)' = find_station(id)
              /\ find_line(id)' = find_line(id)
              /\ stations_for_line(id)' = stations_for_line(id)
        /\ interchanges' = interchanges]_vars

\* C30 witness: update_map raised the schema error on a store whose active
\* map had been extended by two calls of add_station, and the two stations
\* are still found.
C30_Witness ==
    /\ last.op = "update_map" /\ last.status = "ValidationError"
    /\ added = 2
    /\ find_station(map.stations[Len(map.stations)].id) = Len(map.stations)
    /\ Len(map.stations) >= 2

====
